---- MODULE Spec2Model ----
(***************************************************************************)
(* Model of the dcrwebapi refresh loop (src/service.go): the provider      *)
(* store (Stakepools, Vsps) behind service.Mutex, the fan-out / fan-in of  *)
(* stakepoolData and vspData, the per-instance units stakepoolStats and    *)
(* vspStats with their decoders, and the gsd / vsp handlers.               *)
(***************************************************************************)
EXTENDS Integers, Sequences, FiniteSets, TLC

(***************************************************************************)
(* Bounds of the model.                                                    *)
(***************************************************************************)
\* number of refresh cycles run (the initial one and the ticker's)
MaxCycles == 2

(***************************************************************************)
(* Program constants.                                                      *)
(***************************************************************************)
StakepoolAPIInitialVersion == 1
StakepoolAPICurrentVersion == 2
\* poolVersion is cut to its first 13 bytes
VersionMaxLen == 13
\* http.StatusOK
StatusOK == 200
\* the ticker period, in seconds (time.Minute * 5)
TickerPeriod == 300

(***************************************************************************)
(* Strings are sequences of one-character strings, so that the            *)
(* sanitizer can be computed character by character.                       *)
(***************************************************************************)
semanticBuildAlphabet ==
  { "0", "1", "2", "3", "4", "5", "6", "7", "8", "9",
    "A", "B", "C", "D", "E", "F", "G", "H", "I", "J", "K", "L", "M",
    "N", "O", "P", "Q", "R", "S", "T", "U", "V", "W", "X", "Y", "Z",
    "a", "b", "c", "d", "e", "f", "g", "h", "i", "j", "k", "l", "m",
    "n", "o", "p", "q", "r", "s", "t", "u", "v", "w", "x", "y", "z",
    "-", ".", "+" }

RECURSIVE normalizeSemString(_, _)
normalizeSemString(str, alphabet) ==
  IF str = <<>> THEN <<>>
  ELSE IF Head(str) \in alphabet
       THEN <<Head(str)>> \o normalizeSemString(Tail(str), alphabet)
       ELSE normalizeSemString(Tail(str), alphabet)

NormalizeBuildString(str) == normalizeSemString(str, semanticBuildAlphabet)

\* the version without the cut to 13 characters
PoolVersionUncut(str) == NormalizeBuildString(str)

\* poolVersion := NormalizeBuildString(v); if len > 13 { poolVersion[0:13] }
PoolVersion(str) ==
  LET n == NormalizeBuildString(str)
  IN  IF Len(n) > VersionMaxLen THEN SubSeq(n, 1, VersionMaxLen) ELSE n

(***************************************************************************)
(* JSON values as encoding/json decodes them into interface{}: one record  *)
(* shape for every value, t the dynamic type.  Numbers (float64) are kept  *)
(* in tenths: n = 35 is 3.5.                                               *)
(***************************************************************************)
\* the JSON object without keys, and the nil map
EmptyObj == [x \in {} |-> 0]

JNum(x)  == [t |-> "num",  n |-> x, s |-> <<>>, b |-> FALSE, a |-> <<>>, o |-> EmptyObj]
JStr(x)  == [t |-> "str",  n |-> 0, s |-> x,    b |-> FALSE, a |-> <<>>, o |-> EmptyObj]
JBool(x) == [t |-> "bool", n |-> 0, s |-> <<>>, b |-> x,     a |-> <<>>, o |-> EmptyObj]
JArr(x)  == [t |-> "arr",  n |-> 0, s |-> <<>>, b |-> FALSE, a |-> x, o |-> EmptyObj]
JObj(x)  == [t |-> "obj",  n |-> 0, s |-> <<>>, b |-> FALSE, a |-> <<>>, o |-> x]
JNull    == [t |-> "null", n |-> 0, s |-> <<>>, b |-> FALSE, a |-> <<>>, o |-> EmptyObj]

\* the conversion to the nearest integer
ToNearestInt(n) == IF n >= 0 THEN (n + 5) \div 10 ELSE -((5 - n) \div 10)

\* int(x) and int64(x) of a float64: the fraction is discarded
ToInt(n) == IF n >= 0 THEN n \div 10 ELSE -((-n) \div 10)

\* m[key] of a map[string]interface{}: nil when the key is absent
Lookup(m, key) == IF key \in DOMAIN m THEN m[key] ELSE JNull

(***************************************************************************)
(* The configuration tables of NewService (the first entries of each).     *)
(***************************************************************************)
VspTable ==
  << [url |-> "teststakepool.decred.org", Network |-> "testnet", Launched |-> 1590969600],
     [url |-> "test.stakey.net",          Network |-> "testnet", Launched |-> 1596153600],
     [url |-> "stakey.net",               Network |-> "mainnet", Launched |-> 1603324800],
     [url |-> "vsp.stakeminer.com",       Network |-> "mainnet", Launched |-> 1604880000] >>

StakepoolTable ==
  << [key |-> "Alfa",      Network |-> "testnet",
      URL |-> "https://test-dcrpool.dittrex.com", Launched |-> 1550361600],
     [key |-> "Everstake", Network |-> "mainnet",
      URL |-> "https://decred.everstake.one",     Launched |-> 1563840000],
     [key |-> "Dittrex",   Network |-> "mainnet",
      URL |-> "https://dcrpool.dittrex.com",      Launched |-> 1543363200],
     [key |-> "Delta",     Network |-> "mainnet",
      URL |-> "https://dcr.stakeminer.com",       Launched |-> 1463616000] >>

\* The tables the model runs NewService with: two instances taken from the
\* head of the tables, in every split between stakepools and VSPs.
Configurations ==
  { [pools |-> {"Alfa", "Everstake"}, vsps |-> {}],
    [pools |-> {"Alfa"}, vsps |-> {"teststakepool.decred.org"}],
    [pools |-> {}, vsps |-> {"teststakepool.decred.org", "test.stakey.net"}] }

PoolEntry(key) == CHOOSE e \in { StakepoolTable[i] : i \in 1..Len(StakepoolTable) } : e.key = key
VspEntry(url)  == CHOOSE e \in { VspTable[i] : i \in 1..Len(VspTable) } : e.url = url

\* the Stakepool literal of NewService: the Go zero value in every other field
NewStakepool(key) ==
  [ APIEnabled |-> FALSE, APIVersionsSupported |-> <<>>,
    Network |-> PoolEntry(key).Network, URL |-> PoolEntry(key).URL,
    Launched |-> PoolEntry(key).Launched, LastUpdated |-> 0,
    Immature |-> 0, Live |-> 0, Voted |-> 0, Missed |-> 0,
    PoolFees |-> 0, ProportionLive |-> 0, ProportionMissed |-> 0,
    UserCount |-> 0, UserCountActive |-> 0, Version |-> <<>> ]

\* the Vsp literal of NewService
NewVsp(url) ==
  [ Network |-> VspEntry(url).Network, Launched |-> VspEntry(url).Launched,
    LastUpdated |-> 0, APIVersions |-> <<>>, FeePercentage |-> 0,
    Closed |-> FALSE, Voting |-> 0, Voted |-> 0, Revoked |-> 0 ]

(***************************************************************************)
(* What a provider can answer.  A response is a transport failure, or a    *)
(* status code with a body; a body is text that is no JSON object, the     *)
(* JSON null, or a JSON object (a function from its keys to JSON values).  *)
(***************************************************************************)
Garbage == [json |-> "invalid", top |-> EmptyObj]
NullBody == [json |-> "null", top |-> EmptyObj]
ObjBody(m) == [json |-> "object", top |-> m]

\* the nil slice getHTTP returns with an error
NilBytes == [json |-> "nil", top |-> EmptyObj]

TransportError == [net |-> "error", status |-> 0, body |-> Garbage]
ReadError == [net |-> "readerror", status |-> StatusOK, body |-> Garbage]
Reply(code, body) == [net |-> "ok", status |-> code, body |-> body]

\* the keys stakepoolStats requires in "data"
PoolRequired ==
  { "Immature", "Live", "Voted", "Missed", "PoolFees", "ProportionLive",
    "ProportionMissed", "UserCount", "UserCountActive", "APIVersionsSupported" }

\* the keys vspStats requires
VspRequired ==
  { "apiversions", "feepercentage", "vspclosed", "voting", "voted", "revoked" }

Success == <<"s", "u", "c", "c", "e", "s", "s">>
Failure == <<"e", "r", "r", "o", "r">>

PoolDataA ==
  [ Immature |-> JNum(20), Live |-> JNum(30), Voted |-> JNum(40), Missed |-> JNum(10),
    PoolFees |-> JNum(50), ProportionLive |-> JNum(1), ProportionMissed |-> JNum(0),
    UserCount |-> JNum(70), UserCountActive |-> JNum(60),
    APIVersionsSupported |-> JArr(<<JNum(10), JNum(20)>>),
    Version |-> JStr(<<"1", ".", "5", ".", "0">>) ]

\* fractional counters, and a version string with characters outside the
\* alphabet and more than 13 inside it
PoolDataB ==
  [ Immature |-> JNum(35), Live |-> JNum(49), Voted |-> JNum(51), Missed |-> JNum(29),
    PoolFees |-> JNum(75), ProportionLive |-> JNum(2), ProportionMissed |-> JNum(3),
    UserCount |-> JNum(99), UserCountActive |-> JNum(81),
    APIVersionsSupported |-> JArr(<<JNum(20)>>),
    Version |-> JStr(<<"v", "1", ".", "6", ".", "0", " ", "(", "p", "r", "e", ")",
                       " ", "b", "u", "i", "l", "d", "+", "7">>) ]

PoolBody(status, data) == ObjBody([status |-> status, data |-> data])

\* m without key k
Drop(m, k) == [x \in DOMAIN m \ {k} |-> m[x]]
\* m with the value of key k replaced
Retype(m, k, v) == [x \in DOMAIN m |-> IF x = k THEN v ELSE m[x]]

PoolValidBodies == { PoolBody(JStr(Success), JObj(d)) : d \in {PoolDataA, PoolDataB} }

PoolBadBodies ==
  { Garbage, NullBody, ObjBody(EmptyObj),
    ObjBody([data |-> JObj(PoolDataA)]),
    PoolBody(JNum(10), JObj(PoolDataA)),
    PoolBody(JStr(Failure), JObj(PoolDataA)),
    PoolBody(JStr(Failure), JNull),
    ObjBody([status |-> JStr(Success)]),
    PoolBody(JStr(Success), JArr(<<>>)) }
  \cup { PoolBody(JStr(Success), JObj(Drop(PoolDataA, k))) : k \in DOMAIN PoolDataA }
  \cup { PoolBody(JStr(Success), JObj(Retype(PoolDataA, k, v))) :
           k \in DOMAIN PoolDataA, v \in {JNull, JBool(TRUE)} }

PoolResponses ==
  { TransportError, ReadError, Reply(500, Garbage), Reply(404, PoolBody(JStr(Success), JObj(PoolDataA))) }
  \cup { Reply(StatusOK, b) : b \in PoolValidBodies \cup PoolBadBodies }

VspInfoA ==
  [ apiversions |-> JArr(<<JNum(30)>>), feepercentage |-> JNum(50),
    vspclosed |-> JBool(FALSE), voting |-> JNum(390), voted |-> JNum(570),
    revoked |-> JNum(80) ]

VspInfoB ==
  [ apiversions |-> JArr(<<JNum(30), JNum(45)>>), feepercentage |-> JNum(8),
    vspclosed |-> JBool(TRUE), voting |-> JNum(15), voted |-> JNum(26),
    revoked |-> JNum(37), extra |-> JStr(<<"x">>) ]

VspValidBodies == { ObjBody(VspInfoA), ObjBody(VspInfoB) }

VspBadBodies ==
  { Garbage, NullBody, ObjBody(EmptyObj) }
  \cup { ObjBody(Drop(VspInfoA, k)) : k \in DOMAIN VspInfoA }
  \cup { ObjBody(Retype(VspInfoA, k, v)) :
           k \in DOMAIN VspInfoA, v \in {JNull, JStr(<<"5">>), JArr(<<JStr(<<"3">>)>>)} }

VspResponses ==
  { TransportError, ReadError, Reply(500, Garbage), Reply(404, ObjBody(VspInfoA)) }
  \cup { Reply(StatusOK, b) : b \in VspValidBodies \cup VspBadBodies }


(***************************************************************************)
(* getHTTP: the body, or an error, of one GET request.                     *)
(***************************************************************************)
\* getHTTP without the test of the status code
getHTTPAnyStatus(resp) ==
  IF resp.net = "error" THEN [err |-> "send", body |-> NilBytes]
  ELSE IF resp.net = "readerror" THEN [err |-> "read", body |-> NilBytes]
  ELSE [err |-> "nil", body |-> resp.body]

getHTTP(resp) ==
  IF resp.net = "error" THEN [err |-> "send", body |-> NilBytes]
  ELSE IF resp.status # StatusOK THEN [err |-> "status", body |-> NilBytes]
  ELSE IF resp.net = "readerror" THEN [err |-> "read", body |-> NilBytes]
  ELSE [err |-> "nil", body |-> resp.body]

\* x.(T) without the comma-ok form panics unless x holds a T
Asserts(x, type) == x.t = type

(***************************************************************************)
(* stakepoolStats from the response on: the result of the call (an error   *)
(* returned, a panic, or nil) and the local pool it then holds.            *)
(***************************************************************************)
PoolNumberKeys ==
  { "Immature", "Live", "Voted", "Missed", "PoolFees", "ProportionLive",
    "ProportionMissed", "UserCount", "UserCountActive" }

\* the assignments to the local pool without the one of line 588
PoolAssignUnstamped(pool, data, t) ==
  [ pool EXCEPT
      !.Version = PoolVersion(data["Version"].s),
      !.Immature = ToInt(data["Immature"].n),
      !.Live = ToInt(data["Live"].n),
      !.Voted = ToInt(data["Voted"].n),
      !.Missed = ToInt(data["Missed"].n),
      !.PoolFees = data["PoolFees"].n,
      !.ProportionLive = data["ProportionLive"].n,
      !.ProportionMissed = data["ProportionMissed"].n,
      !.UserCount = ToInt(data["UserCount"].n),
      !.UserCountActive = ToInt(data["UserCountActive"].n),
      !.APIVersionsSupported = data["APIVersionsSupported"].a,
      !.APIEnabled = TRUE ]

\* the assignments made to a record that was not read from the map, whose
\* identity fields hold the Go zero values
PoolAssignToZero(pool, data, t) ==
  [ PoolAssignUnstamped([pool EXCEPT !.Network = "", !.URL = "", !.Launched = 0], data, t)
      EXCEPT !.LastUpdated = t ]

\* the assignments to the local pool without the one of line 587
PoolAssignNotEnabling(pool, data, t) ==
  [ PoolAssignUnstamped(pool, data, t) EXCEPT
      !.APIEnabled = pool.APIEnabled, !.LastUpdated = t ]

\* lines 572-588: the assignments to the local pool
PoolAssign(pool, data, t) ==
  [ pool EXCEPT
      !.Version = PoolVersion(data["Version"].s),
      !.Immature = ToInt(data["Immature"].n),
      !.Live = ToInt(data["Live"].n),
      !.Voted = ToInt(data["Voted"].n),
      !.Missed = ToInt(data["Missed"].n),
      !.PoolFees = data["PoolFees"].n,
      !.ProportionLive = data["ProportionLive"].n,
      !.ProportionMissed = data["ProportionMissed"].n,
      !.UserCount = ToInt(data["UserCount"].n),
      !.UserCountActive = ToInt(data["UserCountActive"].n),
      !.APIVersionsSupported = data["APIVersionsSupported"].a,
      !.APIEnabled = TRUE,
      !.LastUpdated = t ]

StakepoolDecode(pool, resp, t) ==
  LET got == getHTTP(resp)
      poolData == got.body.top
      status == Lookup(poolData, "status")
      dataV == Lookup(poolData, "data")
      data == dataV.o
  IN  IF got.err # "nil" THEN [kind |-> "error", why |-> got.err, pool |-> pool, data |-> EmptyObj]
      ELSE IF got.body.json = "invalid"
        THEN [kind |-> "error", why |-> "unmarshal", pool |-> pool, data |-> EmptyObj]
      ELSE IF ~Asserts(status, "str")
        THEN [kind |-> "panic", why |-> "status", pool |-> pool, data |-> EmptyObj]
      ELSE IF status.s # Success
        THEN [kind |-> "error", why |-> "non-success", pool |-> pool, data |-> EmptyObj]
      ELSE IF ~Asserts(dataV, "obj")
        THEN [kind |-> "panic", why |-> "data", pool |-> pool, data |-> EmptyObj]
      ELSE IF ~(PoolRequired \subseteq DOMAIN data)
        THEN [kind |-> "error", why |-> "missing", pool |-> pool, data |-> EmptyObj]
      ELSE IF ~Asserts(Lookup(data, "Version"), "str")
        THEN [kind |-> "panic", why |-> "Version", pool |-> pool, data |-> EmptyObj]
      ELSE IF \E k \in PoolNumberKeys : ~Asserts(data[k], "num")
        THEN [kind |-> "panic", why |-> "number", pool |-> pool, data |-> EmptyObj]
      ELSE IF ~Asserts(data["APIVersionsSupported"], "arr")
        THEN [kind |-> "panic", why |-> "APIVersionsSupported", pool |-> pool, data |-> EmptyObj]
      ELSE [kind |-> "nil", why |-> "", pool |-> PoolAssign(pool, data, t), data |-> data]

(***************************************************************************)
(* vspStats from the response on.                                          *)
(***************************************************************************)
\* lines 630-633: int64(i.(float64)) of every element
VspVersions(arr) == [i \in 1..Len(arr) |-> ToInt(arr[i].n)]

VspAssign(vsp, info, t) ==
  [ vsp EXCEPT
      !.APIVersions = VspVersions(info["apiversions"].a),
      !.FeePercentage = info["feepercentage"].n,
      !.Closed = info["vspclosed"].b,
      !.Voting = ToInt(info["voting"].n),
      !.Voted = ToInt(info["voted"].n),
      !.Revoked = ToInt(info["revoked"].n),
      !.LastUpdated = t ]

VspDecode(vsp, resp, t) ==
  LET got == getHTTP(resp)
      info == got.body.top
  IN  IF got.err # "nil" THEN [kind |-> "error", why |-> got.err, vsp |-> vsp, data |-> EmptyObj]
      ELSE IF got.body.json = "invalid"
        THEN [kind |-> "error", why |-> "unmarshal", vsp |-> vsp, data |-> EmptyObj]
      ELSE IF ~(VspRequired \subseteq DOMAIN info)
        THEN [kind |-> "error", why |-> "missing", vsp |-> vsp, data |-> EmptyObj]
      ELSE IF ~Asserts(info["apiversions"], "arr")
        THEN [kind |-> "panic", why |-> "apiversions", vsp |-> vsp, data |-> EmptyObj]
      ELSE IF \E i \in 1..Len(info["apiversions"].a) :
                ~Asserts(info["apiversions"].a[i], "num")
        THEN [kind |-> "panic", why |-> "apiversions", vsp |-> vsp, data |-> EmptyObj]
      ELSE IF ~Asserts(info["feepercentage"], "num")
        THEN [kind |-> "panic", why |-> "feepercentage", vsp |-> vsp, data |-> EmptyObj]
      ELSE IF ~Asserts(info["vspclosed"], "bool")
        THEN [kind |-> "panic", why |-> "vspclosed", vsp |-> vsp, data |-> EmptyObj]
      ELSE IF \E k \in {"voting", "voted", "revoked"} : ~Asserts(info[k], "num")
        THEN [kind |-> "panic", why |-> "number", vsp |-> vsp, data |-> EmptyObj]
      ELSE [kind |-> "nil", why |-> "", vsp |-> VspAssign(vsp, info, t), data |-> info]


(***************************************************************************)
(* The state of the service.                                               *)
(*   Stakepools, Vsps  the provider maps of Service                        *)
(*   Mutex             service.Mutex: the writer ("" when none) and the    *)
(*                     goroutines holding the read lock                    *)
(*   orch              the goroutine running stakepoolData and vspData     *)
(*                     (NewService first, then the ticker loop): its       *)
(*                     position and the keys its range has yet to visit    *)
(*   waitGroup         the WaitGroup of the running stakepoolData or       *)
(*                     vspData: counter n and waiters w                    *)
(*   spUnit, vspUnit   the goroutine launched for each key                 *)
(*   handler           the HandleRoutes calls in progress                  *)
(*   cycle, now        refresh cycles started, and time.Now().Unix()       *)
(*   serving           NewService has returned and the router is served    *)
(*   crashed           why the process died and in which goroutine ("" and  *)
(*                     "" while it runs)                                   *)
(*   cycleStakepools, cycleVsps  the maps as they were when the running    *)
(*                     cycle began (history, read by no action)            *)
(*   trial             one call of stakepoolStats or vspStats taken alone: *)
(*                     its arguments and what it returned and stored       *)
(*   calc              one evaluation of a function that touches no state: *)
(*                     its name, its arguments and its result              *)
(***************************************************************************)
VARIABLES Stakepools, Vsps, Mutex, orch, waitGroup, spUnit, vspUnit, handler,
          cycle, now, serving, crashed, cycleStakepools, cycleVsps,
          Cache, clock, agg, promised, trial, calc

\* the state of the aggregate cache and of the requests that use it, and
\* the call taken alone: what the refresh of the store leaves as it is
aggVars == << Cache, clock, agg, promised, trial, calc >>

\* the state of the provider store and of its refresh, and the call taken
\* alone: what the requests for the aggregate values leave as it is
storeVars == << Stakepools, Vsps, Mutex, orch, waitGroup, spUnit, vspUnit, handler,
               cycle, now, serving, crashed, cycleStakepools, cycleVsps, trial, calc >>

vars == << Stakepools, Vsps, Mutex, orch, waitGroup, spUnit, vspUnit, handler,
           cycle, now, serving, crashed, cycleStakepools, cycleVsps, aggVars >>

\* the HandleRoutes calls the server runs at the same time
Handlers == {"h1"}

\* time.Now().Unix() when NewService runs
StartTime == 1605000000

\* the HandleRoutes calls for dc, gcs and cc the server runs at the same time
AggHandlers == {"a1", "a2"}

\* the keys downloadCount and coinSupply use in service.Cache
CacheKeys == {"dc", "gsc"}

\* no item
NoItem == [tag |-> "none", n |-> 0, strs |-> <<>>]

\* a HandleRoutes call between requests
IdleAgg ==
  [ pc |-> "idle", route |-> "", addr |-> <<>>, now |-> 0, hit |-> FALSE,
    old |-> FALSE, fetches |-> 0, countB |-> 0, countR |-> 0, got |-> NoItem,
    status |-> 0, body |-> <<>> ]

\* no call taken alone
NoTrial ==
  [ pc |-> "none", of |-> "", resp |-> TransportError, before |-> EmptyObj,
    result |-> "", why |-> "", names |-> {}, after |-> EmptyObj ]

\* no evaluation
NoCalc == [fn |-> "", arg |-> <<>>, places |-> 0, out |-> <<>>]

\* a goroutine that is not running holds no record worth telling apart
IdleSpUnit(key) ==
  [pc |-> "idle", apiVersion |-> StakepoolAPICurrentVersion,
   pool |-> NewStakepool(key), attempts |-> <<>>, got |-> EmptyObj]
IdleVspUnit(url) ==
  [pc |-> "idle", vsp |-> NewVsp(url), attempts |-> <<>>, got |-> EmptyObj]
IdleHandler == [pc |-> "idle", route |-> "", status |-> 0, resp |-> EmptyObj]

NotCrashed == [why |-> "", by |-> ""]
\* an unrecovered panic, or a fatal error of the runtime, ends the process
Crash(why, by) == [why |-> why, by |-> by]

\* NewService up to the first call of stakepoolData
Init ==
  /\ \E c \in Configurations :
       /\ Stakepools = [k \in c.pools |-> NewStakepool(k)]
       /\ Vsps = [u \in c.vsps |-> NewVsp(u)]
  /\ Mutex = [w |-> "", r |-> {}]
  /\ orch = [pc |-> "stakepoolData", todo |-> {}]
  /\ waitGroup = [n |-> 0, w |-> 0]
  /\ spUnit = [k \in DOMAIN Stakepools |-> IdleSpUnit(k)]
  /\ vspUnit = [u \in DOMAIN Vsps |-> IdleVspUnit(u)]
  /\ handler = [h \in Handlers |-> IdleHandler]
  /\ cycle = 1
  /\ now = StartTime
  /\ serving = FALSE
  /\ crashed = NotCrashed
  /\ cycleStakepools = Stakepools
  /\ cycleVsps = Vsps
  /\ Cache = EmptyObj
  /\ clock = 0
  /\ agg = [h \in AggHandlers |-> IdleAgg]
  /\ promised = [k \in CacheKeys |-> 0]
  /\ trial = NoTrial
  /\ calc = NoCalc

Running == crashed = NotCrashed

(***************************************************************************)
(* sync.RWMutex.                                                           *)
(***************************************************************************)
\* RLock that does not wait for the writer
CanRLockAnyway == TRUE
CanRLock == Mutex.w = ""
CanLock == Mutex.w = "" /\ Mutex.r = {}
RLock(g) == [Mutex EXCEPT !.r = @ \cup {g}]
\* a read lock that is kept
RUnlockForgotten(g) == Mutex
RUnlock(g) == [Mutex EXCEPT !.r = @ \ {g}]
Lock(g) == [Mutex EXCEPT !.w = g]
Unlock(g) == [Mutex EXCEPT !.w = ""]
Holds(g) == g \in Mutex.r \/ Mutex.w = g

(***************************************************************************)
(* sync.WaitGroup.  Add panics when it raises the counter from zero while  *)
(* a Wait is blocked, or lowers it below zero; the Done that brings the    *)
(* counter to zero with a waiter blocked releases it in a second step.     *)
(***************************************************************************)
AddPanics(delta) ==
  \/ waitGroup.n + delta < 0
  \/ waitGroup.w > 0 /\ delta > 0 /\ waitGroup.n + delta = delta
Add(delta) == [waitGroup EXCEPT !.n = @ + delta]
\* after Done has lowered the counter: whether this goroutine must wake the waiter
MustRelease(wg) == wg.n = 0 /\ wg.w > 0


(***************************************************************************)
(* A record half written: a struct assignment copies the value in          *)
(* pieces, here the leading fields first.                                  *)
(***************************************************************************)
StakepoolHead ==
  { "APIEnabled", "APIVersionsSupported", "Network", "URL", "Launched",
    "LastUpdated", "Immature", "Live" }
VspHead == { "Network", "Launched", "LastUpdated", "APIVersions" }

\* the assignment made under every key of the map
PutAll(m, key, value) == [k \in DOMAIN m |-> value]

\* a write that stores the value under another key and deletes the one given
PutRenamed(m, key, value) ==
  [k \in (DOMAIN m \ {key}) \cup {""} |-> IF k = "" THEN value ELSE m[k]]

\* m[key] = value of a Go map that has the key
Put(m, key, value) == [m EXCEPT ![key] = value]

HalfWritten(old, new, head) ==
  [f \in DOMAIN old |-> IF f \in head THEN new[f] ELSE old[f]]

(***************************************************************************)
(* stakepoolData (lines 666-686).                                          *)
(***************************************************************************)
\* stakepoolData without its Add before the range
StakepoolDataAddMissing ==
  /\ Running
  /\ orch.pc = "stakepoolData"
  /\ waitGroup' = [n |-> 0, w |-> 0]
  /\ orch' = [pc |-> "spRange", todo |-> DOMAIN Stakepools]
  /\ UNCHANGED << Stakepools, Vsps, Mutex, spUnit, vspUnit, handler, cycle, now,
                  serving, crashed, cycleStakepools, cycleVsps, aggVars >>

\* waitGroup.Add(len(service.Stakepools)) and the start of the range
StakepoolDataAdd ==
  /\ Running
  /\ orch.pc = "stakepoolData"
  /\ waitGroup' = [n |-> Cardinality(DOMAIN Stakepools), w |-> 0]
  /\ orch' = [pc |-> "spRange", todo |-> DOMAIN Stakepools]
  /\ UNCHANGED << Stakepools, Vsps, Mutex, spUnit, vspUnit, handler, cycle, now,
                  serving, crashed, cycleStakepools, cycleVsps, aggVars >>

\* one iteration of the range: go func(key, service)
StakepoolDataRange(key) ==
  /\ Running
  /\ orch.pc = "spRange"
  /\ key \in orch.todo
  /\ \/ /\ orch' = [orch EXCEPT !.todo = @ \ {key}]
        /\ spUnit' = [spUnit EXCEPT ![key] = [IdleSpUnit(key) EXCEPT !.pc = "rlock"]]
        /\ UNCHANGED crashed
     \/ \* the runtime finds the map being assigned to while it is iterated
        /\ \E k \in DOMAIN spUnit : spUnit[k].pc = "writing"
        /\ crashed' = Crash("concurrent map iteration and map write", "orch")
        /\ UNCHANGED << orch, spUnit >>
  /\ UNCHANGED << Stakepools, Vsps, Mutex, waitGroup, vspUnit, handler, cycle, now,
                  serving, cycleStakepools, cycleVsps, aggVars >>

\* the goroutines that have exited are forgotten when stakepoolData returns
Exited(units) ==
  [k \in DOMAIN units |-> IF units[k].pc = "done" THEN IdleSpUnit(k) ELSE units[k]]

\* where the goroutine goes on when a Wait returns
AfterWait(o) ==
  IF o.pc \in {"spRange", "spBlocked"}
  THEN [pc |-> "vspRange", todo |-> DOMAIN Vsps]
  ELSE [pc |-> "return", todo |-> {}]

\* waitGroup.Wait(), and on its return the call of vspData
StakepoolDataWait ==
  /\ Running
  /\ orch.pc = "spRange"
  /\ orch.todo = {}
  /\ IF waitGroup.n = 0
     THEN /\ orch' = AfterWait(orch)
          /\ waitGroup' = [n |-> 0, w |-> 0]
          /\ spUnit' = Exited(spUnit)
     ELSE /\ orch' = [orch EXCEPT !.pc = "spBlocked"]
          /\ waitGroup' = [waitGroup EXCEPT !.w = @ + 1]
          /\ UNCHANGED spUnit
  /\ UNCHANGED << Stakepools, Vsps, Mutex, vspUnit, handler, cycle, now,
                  serving, crashed, cycleStakepools, cycleVsps, aggVars >>

(***************************************************************************)
(* stakepoolStats (lines 526-594), called by the goroutine of              *)
(* stakepoolData with the current API version and, if that call returns    *)
(* an error, with the initial one (lines 674-682).                         *)
(***************************************************************************)
StakepoolStatsRLock(key) ==
  /\ Running
  /\ spUnit[key].pc = "rlock"
  /\ CanRLock
  /\ Mutex' = RLock(key)
  /\ spUnit' = [spUnit EXCEPT ![key].pc = "read"]
  /\ UNCHANGED << Stakepools, Vsps, orch, waitGroup, vspUnit, handler, cycle, now,
                  serving, crashed, cycleStakepools, cycleVsps, aggVars >>

\* pool = service.Stakepools[key]; RUnlock
StakepoolStatsRead(key) ==
  /\ Running
  /\ spUnit[key].pc = "read"
  /\ Mutex' = RUnlock(key)
  /\ spUnit' = [spUnit EXCEPT ![key].pc = "fetch", ![key].pool = Stakepools[key]]
  /\ UNCHANGED << Stakepools, Vsps, orch, waitGroup, vspUnit, handler, cycle, now,
                  serving, crashed, cycleStakepools, cycleVsps, aggVars >>

\* what the goroutine does with the error of an attempt
StakepoolRetry(u) ==
  IF u.apiVersion = StakepoolAPICurrentVersion
  THEN [u EXCEPT !.pc = "rlock", !.apiVersion = StakepoolAPIInitialVersion,
                 !.attempts = Append(@, [v |-> u.apiVersion, err |-> TRUE])]
  ELSE [u EXCEPT !.pc = "wgDone",
                 !.attempts = Append(@, [v |-> u.apiVersion, err |-> TRUE])]

\* StakepoolStatsFetch with a store write on the error path: the pool is
\* marked as having its API disabled when an attempt fails
StakepoolStatsFetchMarking(key) ==
  /\ Running
  /\ spUnit[key].pc = "fetch"
  /\ \E out \in { StakepoolDecode(spUnit[key].pool, resp, now) : resp \in PoolResponses } :
           \/ /\ out.kind = "error"
              /\ spUnit' = [spUnit EXCEPT ![key] = StakepoolRetry(@)]
              /\ Stakepools' = [Stakepools EXCEPT ![key].APIEnabled = FALSE]
              /\ UNCHANGED crashed
           \/ /\ out.kind = "panic"
              /\ crashed' = Crash("interface conversion", key)
              /\ UNCHANGED << spUnit, Stakepools >>
           \/ /\ out.kind = "nil"
              /\ spUnit' = [spUnit EXCEPT ![key].pc = "lock", ![key].pool = out.pool,
                                             ![key].got = out.data]
              /\ UNCHANGED << crashed, Stakepools >>
  /\ UNCHANGED << Vsps, Mutex, orch, waitGroup, vspUnit, handler, cycle,
                  now, serving, cycleStakepools, cycleVsps, aggVars >>

\* getHTTP, json.Unmarshal, the checks and the assignments to the local pool
StakepoolStatsFetch(key) ==
  /\ Running
  /\ spUnit[key].pc = "fetch"
  /\ \E out \in { StakepoolDecode(spUnit[key].pool, resp, now) : resp \in PoolResponses } :
           \/ /\ out.kind = "error"
              /\ spUnit' = [spUnit EXCEPT ![key] = StakepoolRetry(@)]
              /\ UNCHANGED crashed
           \/ /\ out.kind = "panic"
              /\ crashed' = Crash("interface conversion", key)
              /\ UNCHANGED spUnit
           \/ /\ out.kind = "nil"
              /\ spUnit' = [spUnit EXCEPT ![key].pc = "lock", ![key].pool = out.pool,
                                             ![key].got = out.data]
              /\ UNCHANGED crashed
  /\ UNCHANGED << Stakepools, Vsps, Mutex, orch, waitGroup, vspUnit, handler, cycle,
                  now, serving, cycleStakepools, cycleVsps, aggVars >>

StakepoolStatsLock(key) ==
  /\ Running
  /\ spUnit[key].pc = "lock"
  /\ CanLock
  /\ Mutex' = Lock(key)
  /\ spUnit' = [spUnit EXCEPT ![key].pc = "write"]
  /\ UNCHANGED << Stakepools, Vsps, orch, waitGroup, vspUnit, handler, cycle, now,
                  serving, crashed, cycleStakepools, cycleVsps, aggVars >>

\* service.Stakepools[key] = pool, the first part of the copy
StakepoolStatsWrite(key) ==
  /\ Running
  /\ spUnit[key].pc = "write"
  /\ Stakepools' = Put(Stakepools, key,
                       HalfWritten(Stakepools[key], spUnit[key].pool, StakepoolHead))
  /\ spUnit' = [spUnit EXCEPT ![key].pc = "writing"]
  /\ UNCHANGED << Vsps, Mutex, orch, waitGroup, vspUnit, handler, cycle, now,
                  serving, crashed, cycleStakepools, cycleVsps, aggVars >>

\* the rest of the copy; Unlock; return nil
StakepoolStatsWritten(key) ==
  /\ Running
  /\ spUnit[key].pc = "writing"
  /\ Stakepools' = Put(Stakepools, key, spUnit[key].pool)
  /\ Mutex' = Unlock(key)
  /\ spUnit' = [spUnit EXCEPT
                  ![key].pc = "wgDone",
                  ![key].attempts = Append(@, [v |-> spUnit[key].apiVersion, err |-> FALSE])]
  /\ UNCHANGED << Vsps, orch, waitGroup, vspUnit, handler, cycle, now,
                  serving, crashed, cycleStakepools, cycleVsps, aggVars >>

\* defer waitGroup.Done()
StakepoolDone(key) ==
  /\ Running
  /\ spUnit[key].pc = "wgDone"
  /\ IF AddPanics(-1)
     THEN /\ crashed' = Crash("sync: negative WaitGroup counter", key)
          /\ UNCHANGED << waitGroup, spUnit >>
     ELSE /\ waitGroup' = Add(-1)
          /\ spUnit' = [spUnit EXCEPT
                          ![key].pc = IF MustRelease(Add(-1)) THEN "release" ELSE "done",
                          ![key].pool = NewStakepool(key)]
          /\ UNCHANGED crashed
  /\ UNCHANGED << Stakepools, Vsps, Mutex, orch, vspUnit, handler, cycle, now,
                  serving, cycleStakepools, cycleVsps, aggVars >>

\* Done, having brought the counter to zero, wakes the goroutine in Wait
StakepoolRelease(key) ==
  /\ Running
  /\ spUnit[key].pc = "release"
  /\ waitGroup' = [n |-> 0, w |-> 0]
  /\ orch' = AfterWait(orch)
  /\ spUnit' = Exited([spUnit EXCEPT ![key].pc = "done"])
  /\ UNCHANGED << Stakepools, Vsps, Mutex, vspUnit, handler, cycle, now,
                  serving, crashed, cycleStakepools, cycleVsps, aggVars >>


(***************************************************************************)
(* vspData (lines 650-663).                                                *)
(***************************************************************************)
\* one iteration of the range: go func(url)
VspDataRange(url) ==
  /\ Running
  /\ orch.pc = "vspRange"
  /\ url \in orch.todo
  /\ \/ /\ orch' = [orch EXCEPT !.todo = @ \ {url}]
        /\ vspUnit' = [vspUnit EXCEPT ![url] = [IdleVspUnit(url) EXCEPT !.pc = "add"]]
        /\ UNCHANGED crashed
     \/ \* the runtime finds the map being assigned to while it is iterated
        /\ \E u \in DOMAIN vspUnit : vspUnit[u].pc = "writing"
        /\ crashed' = Crash("concurrent map iteration and map write", "orch")
        /\ UNCHANGED << orch, vspUnit >>
  /\ UNCHANGED << Stakepools, Vsps, Mutex, waitGroup, spUnit, handler, cycle, now,
                  serving, cycleStakepools, cycleVsps, aggVars >>

\* waitGroup.Wait()
VspDataWait ==
  /\ Running
  /\ orch.pc = "vspRange"
  /\ orch.todo = {}
  /\ IF waitGroup.n = 0
     THEN /\ orch' = AfterWait(orch)
          /\ UNCHANGED waitGroup
     ELSE /\ orch' = [orch EXCEPT !.pc = "vspBlocked"]
          /\ waitGroup' = [waitGroup EXCEPT !.w = @ + 1]
  /\ UNCHANGED << Stakepools, Vsps, Mutex, spUnit, vspUnit, handler, cycle, now,
                  serving, crashed, cycleStakepools, cycleVsps, aggVars >>

\* the goroutine's first statement: waitGroup.Add(1)
VspAdd(url) ==
  /\ Running
  /\ vspUnit[url].pc = "add"
  /\ IF AddPanics(1)
     THEN /\ crashed' = Crash("sync: WaitGroup misuse: Add called concurrently with Wait", url)
          /\ UNCHANGED << waitGroup, vspUnit >>
     ELSE /\ waitGroup' = Add(1)
          /\ vspUnit' = [vspUnit EXCEPT ![url].pc = "rlock"]
          /\ UNCHANGED crashed
  /\ UNCHANGED << Stakepools, Vsps, Mutex, orch, spUnit, handler, cycle, now,
                  serving, cycleStakepools, cycleVsps, aggVars >>

(***************************************************************************)
(* vspStats (lines 596-648).                                               *)
(***************************************************************************)
VspStatsRLock(url) ==
  /\ Running
  /\ vspUnit[url].pc = "rlock"
  /\ CanRLock
  /\ Mutex' = RLock(url)
  /\ vspUnit' = [vspUnit EXCEPT ![url].pc = "read"]
  /\ UNCHANGED << Stakepools, Vsps, orch, waitGroup, spUnit, handler, cycle, now,
                  serving, crashed, cycleStakepools, cycleVsps, aggVars >>

\* vsp = service.Vsps[url]; RUnlock
VspStatsRead(url) ==
  /\ Running
  /\ vspUnit[url].pc = "read"
  /\ Mutex' = RUnlock(url)
  /\ vspUnit' = [vspUnit EXCEPT ![url].pc = "fetch", ![url].vsp = Vsps[url]]
  /\ UNCHANGED << Stakepools, Vsps, orch, waitGroup, spUnit, handler, cycle, now,
                  serving, crashed, cycleStakepools, cycleVsps, aggVars >>

\* getHTTP, json.Unmarshal, the checks and the assignments to the local vsp
VspStatsFetch(url) ==
  /\ Running
  /\ vspUnit[url].pc = "fetch"
  /\ \E out \in { VspDecode(vspUnit[url].vsp, resp, now) : resp \in VspResponses } :
           \/ /\ out.kind = "error"
              /\ vspUnit' = [vspUnit EXCEPT
                               ![url].pc = "wgDone",
                               ![url].attempts = Append(@, [v |-> 3, err |-> TRUE])]
              /\ UNCHANGED crashed
           \/ /\ out.kind = "panic"
              /\ crashed' = Crash("interface conversion", url)
              /\ UNCHANGED vspUnit
           \/ /\ out.kind = "nil"
              /\ vspUnit' = [vspUnit EXCEPT ![url].pc = "lock", ![url].vsp = out.vsp,
                                               ![url].got = out.data]
              /\ UNCHANGED crashed
  /\ UNCHANGED << Stakepools, Vsps, Mutex, orch, waitGroup, spUnit, handler, cycle,
                  now, serving, cycleStakepools, cycleVsps, aggVars >>

VspStatsLock(url) ==
  /\ Running
  /\ vspUnit[url].pc = "lock"
  /\ CanLock
  /\ Mutex' = Lock(url)
  /\ vspUnit' = [vspUnit EXCEPT ![url].pc = "write"]
  /\ UNCHANGED << Stakepools, Vsps, orch, waitGroup, spUnit, handler, cycle, now,
                  serving, crashed, cycleStakepools, cycleVsps, aggVars >>

\* service.Vsps[url] = vsp, the first part of the copy
VspStatsWrite(url) ==
  /\ Running
  /\ vspUnit[url].pc = "write"
  /\ Vsps' = Put(Vsps, url, HalfWritten(Vsps[url], vspUnit[url].vsp, VspHead))
  /\ vspUnit' = [vspUnit EXCEPT ![url].pc = "writing"]
  /\ UNCHANGED << Stakepools, Mutex, orch, waitGroup, spUnit, handler, cycle, now,
                  serving, crashed, cycleStakepools, cycleVsps, aggVars >>

\* the rest of the copy; Unlock; return nil
VspStatsWritten(url) ==
  /\ Running
  /\ vspUnit[url].pc = "writing"
  /\ Vsps' = Put(Vsps, url, vspUnit[url].vsp)
  /\ Mutex' = Unlock(url)
  /\ vspUnit' = [vspUnit EXCEPT
                   ![url].pc = "wgDone",
                   ![url].attempts = Append(@, [v |-> 3, err |-> FALSE])]
  /\ UNCHANGED << Stakepools, orch, waitGroup, spUnit, handler, cycle, now,
                  serving, crashed, cycleStakepools, cycleVsps, aggVars >>

\* defer waitGroup.Done()
VspDone(url) ==
  /\ Running
  /\ vspUnit[url].pc = "wgDone"
  /\ IF AddPanics(-1)
     THEN /\ crashed' = Crash("sync: negative WaitGroup counter", url)
          /\ UNCHANGED << waitGroup, vspUnit >>
     ELSE /\ waitGroup' = Add(-1)
          /\ vspUnit' = [vspUnit EXCEPT
                           ![url].pc = IF MustRelease(Add(-1)) THEN "release" ELSE "done",
                           ![url].vsp = NewVsp(url)]
          /\ UNCHANGED crashed
  /\ UNCHANGED << Stakepools, Vsps, Mutex, orch, spUnit, handler, cycle, now,
                  serving, cycleStakepools, cycleVsps, aggVars >>

\* Done, having brought the counter to zero, wakes the goroutine in Wait
VspRelease(url) ==
  /\ Running
  /\ vspUnit[url].pc = "release"
  /\ waitGroup' = [waitGroup EXCEPT !.w = 0]
  /\ orch' = AfterWait(orch)
  /\ vspUnit' = [vspUnit EXCEPT ![url].pc = "done"]
  /\ UNCHANGED << Stakepools, Vsps, Mutex, spUnit, handler, cycle, now,
                  serving, crashed, cycleStakepools, cycleVsps, aggVars >>

(***************************************************************************)
(* NewService after the initial cycle (lines 365-376), and the ticker      *)
(* loop.                                                                   *)
(***************************************************************************)
\* vspData has returned: NewService returns and main serves the router;
\* the ticker loop goes back to waiting for a tick
Return ==
  /\ Running
  /\ orch.pc = "return"
  /\ orch' = [orch EXCEPT !.pc = "idle"]
  /\ serving' = TRUE
  /\ UNCHANGED << Stakepools, Vsps, Mutex, waitGroup, spUnit, vspUnit, handler,
                  cycle, now, crashed, cycleStakepools, cycleVsps, aggVars >>

\* a tick that does not come long after the requests of the units
UnitsReturnedAnyway == TRUE

\* every request of a unit ends within the 10 s of HTTPClient.Timeout, long
\* before the next tick
UnitsReturned ==
  /\ \A k \in DOMAIN spUnit : spUnit[k].pc \in {"idle", "done"}
  /\ \A u \in DOMAIN vspUnit : vspUnit[u].pc \in {"idle", "done"}

\* stakepoolTicker.C delivers a tick
Tick ==
  /\ Running
  /\ orch.pc = "idle"
  /\ cycle < MaxCycles
  /\ UnitsReturned
  /\ orch' = [orch EXCEPT !.pc = "stakepoolData"]
  /\ cycle' = cycle + 1
  /\ now' = now + TickerPeriod
  /\ cycleStakepools' = Stakepools
  /\ cycleVsps' = Vsps
  /\ vspUnit' = [u \in DOMAIN vspUnit |-> IdleVspUnit(u)]
  /\ UNCHANGED << Stakepools, Vsps, Mutex, waitGroup, spUnit, handler,
                  serving, crashed, aggVars >>

(***************************************************************************)
(* HandleRoutes, the vsp and gsd branches (lines 750-771).                 *)
(***************************************************************************)
StoreRoutes == {"vsp", "gsd"}

\* a request arrives: ParseForm, the switch on c, and RLock
Request(h) ==
  /\ Running
  /\ serving
  /\ handler[h].pc = "idle"
  /\ CanRLock
  /\ Mutex' = RLock(h)
  /\ \E route \in StoreRoutes :
       handler' = [handler EXCEPT ![h] = [IdleHandler EXCEPT !.pc = "marshal", !.route = route]]
  /\ UNCHANGED << Stakepools, Vsps, orch, waitGroup, spUnit, vspUnit,
                  cycle, now, serving, crashed, cycleStakepools, cycleVsps, aggVars >>

\* an encoding that leaves out the records that were never refreshed
MarshalRefreshed(m) == [k \in { x \in DOMAIN m : m[x].LastUpdated > 0 } |-> m[k]]

\* json.Marshal of a map of records: an object with a member for every key
\* of the map, each with every field of the record (no tag of lines 46-78
\* says omitempty).  It fails only on a float64 that is NaN or infinite,
\* which no number decoded from JSON is, so err is nil.
Marshal(m) == [k \in DOMAIN m |-> m[k]]

\* json.Marshal of the map; RUnlock
HandleMarshal(h) ==
  /\ Running
  /\ handler[h].pc = "marshal"
  /\ Mutex' = RUnlock(h)
  /\ handler' = [handler EXCEPT
                   ![h].pc = "respond",
                   ![h].status = StatusOK,
                   ![h].resp = IF handler[h].route = "gsd" THEN Marshal(Stakepools)
                                                          ELSE Marshal(Vsps)]
  /\ UNCHANGED << Stakepools, Vsps, orch, waitGroup, spUnit, vspUnit,
                  cycle, now, serving, crashed, cycleStakepools, cycleVsps, aggVars >>

\* an answer that also gives every record back its NewService values
HandleRespondResetting(h) ==
  /\ Running
  /\ handler[h].pc = "respond"
  /\ handler' = [handler EXCEPT ![h] = IdleHandler]
  /\ Stakepools' = [k \in DOMAIN Stakepools |-> NewStakepool(k)]
  /\ Vsps' = [u \in DOMAIN Vsps |-> NewVsp(u)]
  /\ UNCHANGED << Mutex, orch, waitGroup, spUnit, vspUnit,
                  cycle, now, serving, crashed, cycleStakepools, cycleVsps, aggVars >>

\* writeJSONResponse
HandleRespond(h) ==
  /\ Running
  /\ handler[h].pc = "respond"
  /\ handler' = [handler EXCEPT ![h] = IdleHandler]
  /\ UNCHANGED << Stakepools, Vsps, Mutex, orch, waitGroup, spUnit, vspUnit,
                  cycle, now, serving, crashed, cycleStakepools, cycleVsps, aggVars >>

(***************************************************************************)
(* The aggregate cache: service.Cache, a sync.Map from "dc" and "gsc" to   *)
(* a CacheEntry (lines 143-149).  An entry also records whether the        *)
(* request that stored it had begun before a clear of the cache.           *)
(***************************************************************************)
\* now.Add(1 * time.Minute), in seconds
GcsTTL == 60
\* now.Add(4 * time.Hour), in seconds
DcTTL == 14400
StatusInternalServerError == 500
StatusBadRequest == 400
StatusNotFound == 404

\* the instants, in seconds after the first request, at which requests
\* arrive and steps are taken
ClockTimes == {0, 5, 60, 65, 14400, 14405}

\* t is u or before it
NotAfter(t, u) == t <= u
\* t.Before(u)
Before(t, u) == t < u

Max(a, b) == IF a >= b THEN a ELSE b

\* service.Cache.Load(key)
Has(cache, key) == key \in DOMAIN cache
\* service.Cache.Store(key, entry)
Store(cache, key, entry) ==
  [k \in DOMAIN cache \cup {key} |-> IF k = key THEN entry ELSE cache[k]]

\* the call returns: its locals are gone, what it wrote stays
Finish(a) ==
  [a EXCEPT !.pc = "done", !.now = 0, !.countB = 0, !.countR = 0, !.got = NoItem]

\* one call of a response writer: the first WriteHeader decides the status,
\* every Write appends to the body
WriteResponse(a, code, chunk) ==
  [a EXCEPT !.status = IF a.status = 0 THEN code ELSE a.status,
            !.body = Append(a.body, chunk)]

ItemChunk(item) == [kind |-> "item", item |-> item]
ErrorChunk == [kind |-> "error", item |-> NoItem]
ClearedChunk == [kind |-> "cache cleared", item |-> NoItem]
UnauthorizedChunk == [kind |-> "unauthorized", item |-> NoItem]

\* the key of a route in the cache
CacheKey(route) == IF route = "dc" THEN "dc" ELSE "gsc"
AggRoutes == {"dc", "gcs"}
InFlight(a) == a.pc \in {"fetch", "fetch2", "store"}
Resting(a) == a.pc \in {"idle", "done"}

\* what https://dcrdata.decred.org/api/supply can answer
SupplyBody(v) == ObjBody([supply_mined |-> v])
SupplyValid == { SupplyBody(JNum(12340)) }
SupplyResponses ==
  { TransportError, Reply(500, Garbage) }
  \cup { Reply(StatusOK, b) : b \in SupplyValid \cup
           { Garbage, NullBody, ObjBody(EmptyObj), SupplyBody(JStr(<<"1">>)) } }

\* lines 486-515 of coinSupply: the request, the decoding, and the item
CoinSupplyDecode(resp) ==
  LET got == getHTTP(resp)
      supply == got.body.top
  IN  IF got.err # "nil" THEN [kind |-> "error", item |-> NoItem]
      ELSE IF got.body.json = "invalid" THEN [kind |-> "error", item |-> NoItem]
      ELSE IF ~Asserts(Lookup(supply, "supply_mined"), "num")
        THEN [kind |-> "panic", item |-> NoItem]
      ELSE [kind |-> "nil",
            item |-> [tag |-> "gcs", n |-> supply["supply_mined"].n, strs |-> <<>>]]

\* what a ListReleases call of the github client can return: an error, or
\* releases whose assets have this many downloads in all (a download count
\* is never negative)
Listings ==
  { [err |-> TRUE, downloads |-> 0],
    [err |-> FALSE, downloads |-> 11900] }

\* the decimal digits
DecimalDigits == << "0", "1", "2", "3", "4", "5", "6", "7", "8", "9" >>

\* the verb %d of fmt.Sprintf, for n >= 0
RECURSIVE Itoa(_)
Itoa(n) ==
  IF n < 10 THEN << DecimalDigits[n + 1] >>
  ELSE Itoa(n \div 10) \o << DecimalDigits[(n % 10) + 1] >>

\* the count in thousands, to the nearest thousand
countStrNearest(count) == Itoa((count + 500) \div 1000) \o << "k" >>

\* countStr := fmt.Sprintf("%dk", count/1000)
countStr(count) == Itoa(count \div 1000) \o << "k" >>

\* resp := []string{"DownloadsCount", countStr}
DownloadsItem(str) == [tag |-> "dc", n |-> 0, strs |-> << "DownloadsCount", str >>]

\* HTTPClient.Timeout and the timeout of the context of the github client,
\* in seconds
HTTPTimeout == 10
GithubTimeout == 30

\* the longest a request of this route waits for its remote requests
FetchTimeout(route) == IF route = "dc" THEN GithubTimeout ELSE HTTPTimeout

\* time passes, for a request in flight not beyond the timeout of its fetch
Tock ==
  /\ Running
  /\ \E t \in ClockTimes :
       /\ t > clock
       /\ \A h \in AggHandlers :
            InFlight(agg[h]) => t - agg[h].now <= FetchTimeout(agg[h].route)
       /\ clock' = t
  /\ UNCHANGED << storeVars, Cache, agg, promised >>

\* a dc or gcs request arrives: time.Now(), Cache.Load, and the answer from
\* the cache when the entry has not expired (lines 412-428, 475-484)
AggRequest(h, route) ==
  /\ Running
  /\ Resting(agg[h])
  /\ LET key == CacheKey(route)
         a == [IdleAgg EXCEPT !.route = route, !.now = clock]
     IN  IF Has(Cache, key) /\ Before(clock, Cache[key].expiry)
         THEN agg' = [agg EXCEPT ![h] =
                        WriteResponse(Finish([a EXCEPT !.hit = TRUE,
                                                       !.old = Cache[key].old]),
                                      StatusOK, ItemChunk(Cache[key].item))]
         ELSE agg' = [agg EXCEPT ![h] = [a EXCEPT !.pc = "fetch"]]
  /\ UNCHANGED << storeVars, Cache, clock, promised >>

\* the fetch failed, and the entry the cache has, if any, is the answer
FailedFetchServingStale(a) ==
  IF Has(Cache, CacheKey(a.route))
  THEN WriteResponse(Finish(a), StatusOK, ItemChunk(Cache[CacheKey(a.route)].item))
  ELSE WriteResponse(Finish(a), StatusInternalServerError, ErrorChunk)

\* downloadCount or coinSupply returns nil and the error of its fetch, and
\* HandleRoutes answers with it
FailedFetch(a) == WriteResponse(Finish(a), StatusInternalServerError, ErrorChunk)

\* coinSupply after a miss: the request to dcrdata and its decoding
GcsFetch(h) ==
  /\ Running
  /\ agg[h].pc = "fetch"
  /\ agg[h].route = "gcs"
  /\ \E out \in { CoinSupplyDecode(resp) : resp \in SupplyResponses } :
       LET a == [agg[h] EXCEPT !.fetches = @ + 1]
       IN  \/ /\ out.kind = "error"
              /\ agg' = [agg EXCEPT ![h] = FailedFetch(a)]
           \/ /\ out.kind = "panic"
              /\ agg' = [agg EXCEPT ![h] = Finish(a)]
           \/ /\ out.kind = "nil"
              /\ agg' = [agg EXCEPT ![h] = [a EXCEPT !.pc = "store", !.got = out.item]]
  /\ UNCHANGED << storeVars, Cache, clock, promised >>

\* downloadCount after a miss: the releases of decred-binaries
DcFetchBinaries(h) ==
  /\ Running
  /\ agg[h].pc = "fetch"
  /\ agg[h].route = "dc"
  /\ \E l \in Listings :
       LET a == [agg[h] EXCEPT !.fetches = @ + 1]
       IN  IF l.err
           THEN agg' = [agg EXCEPT ![h] = FailedFetch(a)]
           ELSE agg' = [agg EXCEPT ![h] =
                          [a EXCEPT !.pc = "fetch2", !.countB = l.downloads]]
  /\ UNCHANGED << storeVars, Cache, clock, promised >>

\* the releases of decred-release, the sum of the two counts and the pair
\* that is the result
DcFetchReleases(h) ==
  /\ Running
  /\ agg[h].pc = "fetch2"
  /\ \E l \in Listings :
       LET a == [agg[h] EXCEPT !.fetches = @ + 1]
       IN  IF l.err
           THEN agg' = [agg EXCEPT ![h] = FailedFetch(a)]
           ELSE agg' = [agg EXCEPT ![h] =
                          [a EXCEPT !.pc = "store", !.countR = l.downloads,
                                    !.got = DownloadsItem(countStr(a.countB + l.downloads))]]
  /\ UNCHANGED << storeVars, Cache, clock, promised >>

\* the expiry of an entry stored by a request of this route that began at t
Expiry(route, t) == t + (IF route = "dc" THEN DcTTL ELSE GcsTTL)

\* Cache.Store of the new entry, and the answer
AggStore(h) ==
  /\ Running
  /\ agg[h].pc = "store"
  /\ LET a == agg[h]
         key == CacheKey(a.route)
         entry == [item |-> a.got, expiry |-> Expiry(a.route, a.now), old |-> a.old]
     IN  /\ Cache' = Store(Cache, key, entry)
         /\ promised' = [promised EXCEPT ![key] = Max(@, entry.expiry)]
         /\ agg' = [agg EXCEPT ![h] =
                      WriteResponse(Finish(a), StatusOK, ItemChunk(a.got))]
  /\ UNCHANGED << storeVars, clock >>

(***************************************************************************)
(* HandleRoutes, the cc branch (lines 772-787).  request.RemoteAddr is a   *)
(* string (a sequence of characters), split by net.SplitHostPort.          *)
(***************************************************************************)
\* the first place of c in str, 0 when there is none
IndexOf(str, c) ==
  IF \E i \in 1..Len(str) : str[i] = c
  THEN CHOOSE i \in 1..Len(str) : str[i] = c /\ \A j \in 1..(i - 1) : str[j] # c
  ELSE 0
\* the last place of c in str, 0 when there is none
LastIndexOf(str, c) ==
  IF \E i \in 1..Len(str) : str[i] = c
  THEN CHOOSE i \in 1..Len(str) : str[i] = c /\ \A j \in (i + 1)..Len(str) : str[j] # c
  ELSE 0

SplitError == [err |-> TRUE, host |-> <<>>]

\* net.SplitHostPort: host:port, or [host]:port
SplitHostPort(hostport) ==
  LET i == LastIndexOf(hostport, ":")
      end == IndexOf(hostport, "]")
  IN  IF i = 0 THEN SplitError
      ELSE IF hostport[1] = "["
        THEN IF end = 0 \/ end + 1 # i THEN SplitError
             ELSE IF IndexOf(SubSeq(hostport, 2, Len(hostport)), "[") # 0 THEN SplitError
             ELSE IF IndexOf(SubSeq(hostport, end + 1, Len(hostport)), "]") # 0
               THEN SplitError
             ELSE [err |-> FALSE, host |-> SubSeq(hostport, 2, end - 1)]
      ELSE IF IndexOf(SubSeq(hostport, 1, i - 1), ":") # 0 THEN SplitError
      ELSE IF IndexOf(hostport, "[") # 0 \/ IndexOf(hostport, "]") # 0 THEN SplitError
      ELSE [err |-> FALSE, host |-> SubSeq(hostport, 1, i - 1)]

\* "::1" and "127.0.0.1"
Loopback6 == <<":", ":", "1">>
Loopback4 == <<"1", "2", "7", ".", "0", ".", "0", ".", "1">>
Port == <<":", "8", "0">>

\* the remote addresses of the cc requests
RemoteAddrs ==
  { Loopback4 \o Port,
    <<"[">> \o Loopback6 \o <<"]">> \o Port,
    <<"1", "0", ".", "0", ".", "0", ".", "7">> \o Port,
    <<"l", "o", "c", "a", "l", "h", "o", "s", "t">> \o Port,
    Loopback4,
    Loopback6 }

\* the whole cc branch
ClearCache(h, addr) ==
  /\ Running
  /\ Resting(agg[h])
  /\ LET split == SplitHostPort(addr)
         a0 == [IdleAgg EXCEPT !.route = "cc", !.addr = addr, !.pc = "done"]
         a1 == IF split.err
               THEN WriteResponse(a0, StatusInternalServerError, ErrorChunk)
               ELSE a0
     IN  IF split.host = Loopback6 \/ split.host = Loopback4
         THEN /\ Cache' = EmptyObj
              /\ promised' = [k \in CacheKeys |-> 0]
              /\ agg' = [g \in AggHandlers |->
                           IF g = h THEN WriteResponse(a1, StatusOK, ClearedChunk)
                           ELSE IF InFlight(agg[g]) THEN [agg[g] EXCEPT !.old = TRUE]
                           ELSE agg[g]]
         ELSE /\ agg' = [agg EXCEPT ![h] =
                           WriteResponse(a1, StatusBadRequest, UnauthorizedChunk)]
              /\ UNCHANGED << Cache, promised >>
  /\ UNCHANGED << storeVars, clock >>

\* the variables of the store and of its refresh but for crashed
storeRest == << Stakepools, Vsps, Mutex, orch, waitGroup, spUnit, vspUnit, handler,
               cycle, now, serving, cycleStakepools, cycleVsps, trial, calc >>

\* the requests in flight have begun before the clear
BegunBefore(a) == IF InFlight(a) THEN [a EXCEPT !.old = TRUE] ELSE a

\* The assignment service.Cache = sync.Map{} of line 779 copies a zero
\* sync.Map over the one in use, field by field and without any lock, so it
\* races with the Cache.Store and Cache.Load of the other requests.  When
\* the two do not overlap the outcome is the one of ClearCache and of the
\* other request, in either order.  When the Store of request g overlaps
\* the copy: the mutex Store has locked is zeroed, and its Unlock ends the
\* process; or Store publishes the entries it read before the copy together
\* with its own, so that the cache is not cleared.
ClearCacheDuringStore(h, addr, g) ==
  /\ Running
  /\ Resting(agg[h])
  /\ g # h
  /\ agg[g].pc = "store"
  /\ ~SplitHostPort(addr).err
  /\ SplitHostPort(addr).host \in {Loopback6, Loopback4}
  /\ LET a == agg[g]
         key == CacheKey(a.route)
         entry == [item |-> a.got, expiry |-> Expiry(a.route, a.now), old |-> TRUE]
         cleared == WriteResponse([IdleAgg EXCEPT !.route = "cc", !.addr = addr,
                                                  !.pc = "done"],
                                  StatusOK, ClearedChunk)
     IN  \/ \* the process ends, and its requests with it
            /\ crashed' = Crash("sync: unlock of unlocked mutex", g)
            /\ agg' = [f \in AggHandlers |-> IdleAgg]
            /\ UNCHANGED << Cache, promised >>
         \/ /\ Cache' = Store(Cache, key, entry)
            /\ promised' = [promised EXCEPT ![key] = Max(@, entry.expiry)]
            /\ agg' = [f \in AggHandlers |->
                         IF f = h THEN cleared
                         ELSE IF f = g
                           THEN WriteResponse(Finish(a), StatusOK, ItemChunk(a.got))
                         ELSE BegunBefore(agg[f])]
            /\ UNCHANGED crashed
  /\ UNCHANGED << storeRest, clock >>

\* When the Cache.Load of an arriving dc or gcs request overlaps the copy,
\* Load can find the map half zeroed and panic on it: the server recovers
\* the panic of the handler and the request ends without a response.
ClearCacheDuringLoad(h, addr, g, route) ==
  /\ Running
  /\ Resting(agg[h])
  /\ g # h
  /\ Resting(agg[g])
  /\ ~SplitHostPort(addr).err
  /\ SplitHostPort(addr).host \in {Loopback6, Loopback4}
  /\ Cache' = EmptyObj
  /\ promised' = [k \in CacheKeys |-> 0]
  /\ agg' = [f \in AggHandlers |->
               IF f = h
               THEN WriteResponse([IdleAgg EXCEPT !.route = "cc", !.addr = addr,
                                                  !.pc = "done"],
                                  StatusOK, ClearedChunk)
               ELSE IF f = g THEN Finish([IdleAgg EXCEPT !.route = route, !.now = clock])
               ELSE BegunBefore(agg[f])]
  /\ UNCHANGED << storeVars, clock >>

\* the default branch: writer.WriteHeader(http.StatusNotFound)
NotFound(h) ==
  /\ Running
  /\ Resting(agg[h])
  /\ agg' = [agg EXCEPT ![h] = [IdleAgg EXCEPT !.route = "unknown", !.pc = "done",
                                               !.status = StatusNotFound]]
  /\ UNCHANGED << storeVars, Cache, clock, promised >>

(***************************************************************************)
(* stakepoolStats and vspStats as functions of the record they read and of *)
(* the response they get: what the call returns, the field names its error *)
(* text holds, and the record the map then has.                            *)
(***************************************************************************)
\* lines 568-570: the text is the URL and, printed with %+v, the data object
\* that was received, so the names in it are the keys that are present
StakepoolMissingText(data) == DOMAIN data

\* lines 626-628: the same with the info object
VspMissingText(info) == DOMAIN info

stakepoolStats(pool, resp, t) ==
  LET out == StakepoolDecode(pool, resp, t)
      data == Lookup(getHTTP(resp).body.top, "data").o
  IN  [ result |-> out.kind, why |-> out.why,
        names |-> IF out.why = "missing" THEN StakepoolMissingText(data) ELSE {},
        after |-> IF out.kind = "nil" THEN out.pool ELSE pool ]

vspStats(vsp, resp, t) ==
  LET out == VspDecode(vsp, resp, t)
      info == getHTTP(resp).body.top
  IN  [ result |-> out.kind, why |-> out.why,
        names |-> IF out.why = "missing" THEN VspMissingText(info) ELSE {},
        after |-> IF out.kind = "nil" THEN out.vsp ELSE vsp ]

\* the records a call can find in the map: the one NewService made, and one
\* an earlier cycle stored
StakepoolsBefore ==
  { NewStakepool("Alfa"), PoolAssign(NewStakepool("Alfa"), PoolDataB, StartTime) }
VspsBefore ==
  { NewVsp("stakey.net"), VspAssign(NewVsp("stakey.net"), VspInfoB, StartTime) }

\* a call of stakepoolStats begins
StakepoolStatsCall(pool, resp) ==
  /\ trial.pc = "none"
  /\ trial' = [trial EXCEPT !.pc = "called", !.of = "stakepoolStats",
                            !.resp = resp, !.before = pool]
  /\ UNCHANGED << Stakepools, Vsps, Mutex, orch, waitGroup, spUnit, vspUnit, handler,
                  cycle, now, serving, crashed, cycleStakepools, cycleVsps,
                  Cache, clock, agg, promised, calc >>

\* a call of vspStats begins
VspStatsCall(vsp, resp) ==
  /\ trial.pc = "none"
  /\ trial' = [trial EXCEPT !.pc = "called", !.of = "vspStats",
                            !.resp = resp, !.before = vsp]
  /\ UNCHANGED << Stakepools, Vsps, Mutex, orch, waitGroup, spUnit, vspUnit, handler,
                  cycle, now, serving, crashed, cycleStakepools, cycleVsps,
                  Cache, clock, agg, promised, calc >>

\* the call of stakepoolStats ends
StakepoolStatsReturn ==
  /\ trial.pc = "called"
  /\ trial.of = "stakepoolStats"
  /\ LET r == stakepoolStats(trial.before, trial.resp, StartTime + TickerPeriod)
     IN  trial' = [trial EXCEPT !.pc = "returned", !.result = r.result, !.why = r.why,
                                !.names = r.names, !.after = r.after]
  /\ UNCHANGED << Stakepools, Vsps, Mutex, orch, waitGroup, spUnit, vspUnit, handler,
                  cycle, now, serving, crashed, cycleStakepools, cycleVsps,
                  Cache, clock, agg, promised, calc >>

\* the call of vspStats ends
VspStatsReturn ==
  /\ trial.pc = "called"
  /\ trial.of = "vspStats"
  /\ LET r == vspStats(trial.before, trial.resp, StartTime + TickerPeriod)
     IN  trial' = [trial EXCEPT !.pc = "returned", !.result = r.result, !.why = r.why,
                                !.names = r.names, !.after = r.after]
  /\ UNCHANGED << Stakepools, Vsps, Mutex, orch, waitGroup, spUnit, vspUnit, handler,
                  cycle, now, serving, crashed, cycleStakepools, cycleVsps,
                  Cache, clock, agg, promised, calc >>

Next ==
  \/ StakepoolDataAdd
  \/ \E key \in DOMAIN Stakepools : StakepoolDataRange(key)
  \/ StakepoolDataWait
  \/ \E key \in DOMAIN Stakepools : StakepoolStatsRLock(key)
  \/ \E key \in DOMAIN Stakepools : StakepoolStatsRead(key)
  \/ \E key \in DOMAIN Stakepools : StakepoolStatsFetch(key)
  \/ \E key \in DOMAIN Stakepools : StakepoolStatsLock(key)
  \/ \E key \in DOMAIN Stakepools : StakepoolStatsWrite(key)
  \/ \E key \in DOMAIN Stakepools : StakepoolStatsWritten(key)
  \/ \E key \in DOMAIN Stakepools : StakepoolDone(key)
  \/ \E key \in DOMAIN Stakepools : StakepoolRelease(key)
  \/ \E url \in DOMAIN Vsps : VspDataRange(url)
  \/ VspDataWait
  \/ \E url \in DOMAIN Vsps : VspAdd(url)
  \/ \E url \in DOMAIN Vsps : VspStatsRLock(url)
  \/ \E url \in DOMAIN Vsps : VspStatsRead(url)
  \/ \E url \in DOMAIN Vsps : VspStatsFetch(url)
  \/ \E url \in DOMAIN Vsps : VspStatsLock(url)
  \/ \E url \in DOMAIN Vsps : VspStatsWrite(url)
  \/ \E url \in DOMAIN Vsps : VspStatsWritten(url)
  \/ \E url \in DOMAIN Vsps : VspDone(url)
  \/ \E url \in DOMAIN Vsps : VspRelease(url)
  \/ Return
  \/ Tick
  \/ \E h \in Handlers : Request(h)
  \/ \E h \in Handlers : HandleMarshal(h)
  \/ \E h \in Handlers : HandleRespond(h)

Spec == Init /\ [][Next]_vars

\* the requests for the aggregate values, with the provider store at rest
CacheNext ==
  \/ Tock
  \/ \E h \in AggHandlers, route \in AggRoutes : AggRequest(h, route)
  \/ \E h \in AggHandlers : GcsFetch(h)
  \/ \E h \in AggHandlers : DcFetchBinaries(h)
  \/ \E h \in AggHandlers : DcFetchReleases(h)
  \/ \E h \in AggHandlers : AggStore(h)
  \/ \E h \in AggHandlers, addr \in RemoteAddrs : ClearCache(h, addr)
  \/ \E h, g \in AggHandlers, addr \in RemoteAddrs : ClearCacheDuringStore(h, addr, g)
  \/ \E h, g \in AggHandlers, addr \in RemoteAddrs, route \in AggRoutes :
       ClearCacheDuringLoad(h, addr, g, route)
  \/ \E h \in AggHandlers : NotFound(h)

\* NewService with the first of the configurations
CacheInit == Init /\ DOMAIN Vsps = {}

CacheSpec == CacheInit /\ [][CacheNext]_vars

\* one call of stakepoolStats or of vspStats, on every record and response
StatsNext ==
  \/ \E pool \in StakepoolsBefore, resp \in PoolResponses : StakepoolStatsCall(pool, resp)
  \/ \E vsp \in VspsBefore, resp \in VspResponses : VspStatsCall(vsp, resp)
  \/ StakepoolStatsReturn
  \/ VspStatsReturn

StatsSpec == CacheInit /\ [][StatsNext]_vars

\* the router is served once NewService has returned (lines 375-376) and
\* for as long as the process runs
Served == serving /\ Running

\* the refresh of the store together with every branch of HandleRoutes: the
\* vsp and gsd requests of Next, and one request at a time for dc, gcs, cc
\* and an unknown tag
RoutesNext ==
  \/ Next
  \/ \E route \in AggRoutes : Served /\ AggRequest("a1", route)
  \/ Served /\ GcsFetch("a1")
  \/ Served /\ DcFetchBinaries("a1")
  \/ Served /\ DcFetchReleases("a1")
  \/ Served /\ AggStore("a1")
  \/ \E addr \in RemoteAddrs : Served /\ ClearCache("a1", addr)
  \/ Served /\ NotFound("a1")

\* NewService with the configuration that has a stakepool and a VSP
RoutesInit == Init /\ DOMAIN Stakepools = {"Alfa"}

RoutesSpec == RoutesInit /\ [][RoutesNext]_vars

(***************************************************************************)
(* The functions that touch no state, each evaluated on its own.           *)
(***************************************************************************)
(***************************************************************************)
(* float64 as Go computes with it: the operators +, -, *, / round their    *)
(* exact result to the nearest value of 53 significant bits, ties to even; *)
(* math.Floor and math.Pow(10, n) are exact.  A natural number is the      *)
(* sequence of its base-16 digits, lowest first, without leading zeros     *)
(* (zero is the empty sequence), which keeps every intermediate value a    *)
(* small integer.  Values stay within the normal range of float64, and no  *)
(* divisor is zero.                                                        *)
(***************************************************************************)
\* the 53 significant bits of a float64
MantissaBits == 53

Front(seq) == SubSeq(seq, 1, Len(seq) - 1)
Last(seq) == seq[Len(seq)]

\* a without the zeros above its highest digit
Trim(a) ==
  LET used == { i \in 1..Len(a) : a[i] # 0 }
  IN  IF used = {} THEN <<>>
      ELSE SubSeq(a, 1, CHOOSE i \in used : \A j \in used : j <= i)

\* the digits of a number below 2^31
Digits(n) == Trim([i \in 1..8 |-> (n \div (16 ^ (i - 1))) % 16])

At(a, i) == IF 1 <= i /\ i <= Len(a) THEN a[i] ELSE 0

\* the number of up to seven digits that starts at digit i of a
Small(a, i) ==
  At(a, i) + 16 * At(a, i + 1) + 256 * At(a, i + 2) + 4096 * At(a, i + 3)
    + 65536 * At(a, i + 4) + 1048576 * At(a, i + 5) + 16777216 * At(a, i + 6)

\* each of the digit loops below works on the digits lo..hi: on one digit
\* directly, on more by halves, the carry of the first half going into the
\* second; the result is the digits and then the carry that is left
RECURSIVE AddRange(_, _, _, _, _)
AddJoin(low, a, b, mid, hi) ==
  Front(low) \o AddRange(a, b, mid + 1, hi, Last(low))

AddRange(a, b, lo, hi, c) ==
  IF lo = hi
  THEN << (At(a, lo) + At(b, lo) + c) % 16, (At(a, lo) + At(b, lo) + c) \div 16 >>
  ELSE AddJoin(AddRange(a, b, lo, (lo + hi) \div 2, c), a, b, (lo + hi) \div 2, hi)

BigAdd(a, b) ==
  IF a = <<>> THEN b
  ELSE IF b = <<>> THEN a
  ELSE Trim(AddRange(a, b, 1, IF Len(a) > Len(b) THEN Len(a) ELSE Len(b), 0))

RECURSIVE SubRange(_, _, _, _, _)
SubJoin(low, a, b, mid, hi) ==
  Front(low) \o SubRange(a, b, mid + 1, hi, Last(low))

SubRange(a, b, lo, hi, c) ==
  IF lo = hi
  THEN << (a[lo] - At(b, lo) - c) % 16,
          IF a[lo] - At(b, lo) - c < 0 THEN 1 ELSE 0 >>
  ELSE SubJoin(SubRange(a, b, lo, (lo + hi) \div 2, c), a, b, (lo + hi) \div 2, hi)

\* a - b, for a >= b
BigSub(a, b) == IF b = <<>> THEN a ELSE Trim(Front(SubRange(a, b, 1, Len(a), 0)))

BigLess(a, b) ==
  IF Len(a) # Len(b) THEN Len(a) < Len(b)
  ELSE \E i \in 1..Len(a) :
         a[i] < b[i] /\ \A j \in (i + 1)..Len(a) : a[j] = b[j]

RECURSIVE MulRange(_, _, _, _, _)
MulJoin(low, a, n, mid, hi) ==
  Front(low) \o MulRange(a, n, mid + 1, hi, Last(low))

MulRange(a, n, lo, hi, c) ==
  IF lo = hi THEN << (a[lo] * n + c) % 16, (a[lo] * n + c) \div 16 >>
  ELSE MulJoin(MulRange(a, n, lo, (lo + hi) \div 2, c), a, n, (lo + hi) \div 2, hi)

WithCarry(digits) == Front(digits) \o Digits(Last(digits))

\* a * n, for n below 2^27
MulSmall(a, n) ==
  IF a = <<>> \/ n = 0 THEN <<>> ELSE WithCarry(MulRange(a, n, 1, Len(a), 0))

BitLen(a) ==
  IF a = <<>> THEN 0
  ELSE 4 * (Len(a) - 1) +
       (IF a[Len(a)] < 2 THEN 1 ELSE IF a[Len(a)] < 4 THEN 2
        ELSE IF a[Len(a)] < 8 THEN 3 ELSE 4)

\* a * 2^k
ShiftLeft(a, k) ==
  LET q == k \div 4
      r == k % 4
  IN  Trim([i \in 1..(Len(a) + q + 1) |->
              ((At(a, i - q) * (2 ^ r)) % 16) + (At(a, i - q - 1) \div (2 ^ (4 - r)))])

\* a \div 2^k
ShiftRight(a, k) ==
  LET q == k \div 4
      r == k % 4
  IN  Trim([i \in 1..Len(a) |->
              (At(a, i + q) \div (2 ^ r)) + ((At(a, i + q + 1) % (2 ^ r)) * (2 ^ (4 - r)))])

\* a * b, for b of at most fifteen digits (a mantissa has fourteen)
BigMul(a, b) ==
  BigAdd(BigAdd(MulSmall(a, Small(b, 1) % 1048576),
                ShiftLeft(MulSmall(a, Small(b, 6) % 1048576), 20)),
         ShiftLeft(MulSmall(a, Small(b, 11) % 1048576), 40))

\* long division of the digits hi..lo of a by n, for 0 < n < 2^27, with r
\* left of the digits above: the digits of the quotient, highest first, and
\* then the remainder
RECURSIVE DivRange(_, _, _, _, _)
DivJoin(high, a, n, mid, lo) ==
  Front(high) \o DivRange(a, n, mid, lo, Last(high))

DivRange(a, n, hi, lo, r) ==
  IF lo = hi THEN << (r * 16 + a[hi]) \div n, (r * 16 + a[hi]) % n >>
  ELSE DivJoin(DivRange(a, n, hi, ((lo + hi) \div 2) + 1, r), a, n, (lo + hi) \div 2, lo)

\* the largest d with d * b <= a, for a below 16 * b
DigitOf(a, b) ==
  CHOOSE d \in 0..15 :
    /\ ~BigLess(a, MulSmall(b, d))
    /\ d = 15 \/ BigLess(a, MulSmall(b, d + 1))

\* one step of the long division by a divisor of any size
DivStep(cur, b, d) == << d, BigSub(cur, MulSmall(b, d)) >>
DivDigit(cur, b) == DivStep(cur, b, DigitOf(cur, b))

RECURSIVE DivBigRange(_, _, _, _, _)
DivBigJoin(high, a, b, mid, lo) ==
  Front(high) \o DivBigRange(a, b, mid, lo, Last(high))

DivBigRange(a, b, hi, lo, rem) ==
  IF lo = hi THEN DivDigit(Trim(<<a[hi]>> \o rem), b)
  ELSE DivBigJoin(DivBigRange(a, b, hi, ((lo + hi) \div 2) + 1, rem), a, b,
                  (lo + hi) \div 2, lo)

\* the quotient and whether a remainder is left, from the digits of the
\* quotient, highest first, followed by the remainder; none is the
\* remainder zero
Divided(d, none) ==
  [ q |-> Trim([i \in 1..(Len(d) - 1) |-> d[Len(d) - i]]),
    r |-> Last(d) # none ]

\* a divided by b, for b # 0
BigDiv(a, b) ==
  IF a = <<>> THEN [q |-> <<>>, r |-> FALSE]
  ELSE IF BitLen(b) <= 27 THEN Divided(DivRange(a, Small(b, 1), Len(a), 1, 0), 0)
  ELSE Divided(DivBigRange(a, b, Len(a), 1, <<>>), <<>>)

\* the number of zero bits a ends with, for a # 0
LowZeros(a) ==
  LET i == CHOOSE j \in 1..Len(a) : a[j] # 0 /\ \A l \in 1..(j - 1) : a[l] = 0
  IN  4 * (i - 1) +
      (IF a[i] % 2 = 1 THEN 0 ELSE IF a[i] % 4 = 2 THEN 1
       ELSE IF a[i] % 8 = 4 THEN 2 ELSE 3)

\* a float64 is s * m * 2^e with s the sign and m odd, or zero
Zero == [s |-> 1, m |-> <<>>, e |-> 0]

\* s * m * 2^e with m made odd
Make(s, m, e) ==
  IF m = <<>> THEN Zero
  ELSE [s |-> s, m |-> ShiftRight(m, LowZeros(m)), e |-> e + LowZeros(m)]

\* bit i of a, the lowest being bit 0
Bit(a, i) == (At(a, (i \div 4) + 1) \div (2 ^ (i % 4))) % 2

\* the float64 nearest to s * (m + d) * 2^e, ties to even, where 0 < d < 1
\* when sticky is set and d = 0 otherwise
Nearest(s, m, e, sticky) ==
  IF BitLen(m) <= MantissaBits THEN Make(s, m, e)
  ELSE LET k    == BitLen(m) - MantissaBits
           more == sticky \/ \E i \in 0..(k - 2) : Bit(m, i) = 1
           up   == Bit(m, k - 1) = 1 /\ (more \/ Bit(m, k) = 1)
       IN  Make(s, IF up THEN BigAdd(ShiftRight(m, k), <<1>>)
                   ELSE ShiftRight(m, k), e + k)

Neg(x) == IF x = Zero THEN Zero ELSE [x EXCEPT !.s = -x.s]

\* the position of the highest bit of x
Top(x) == x.e + BitLen(x.m)

\* a * 2^d - b, or b - a * 2^d, with the sign it has: x + y for x and y of
\* different signs
Difference(sx, a, sy, b, e) ==
  IF a = b THEN Zero
  ELSE IF BigLess(a, b) THEN Nearest(sy, BigSub(b, a), e, FALSE)
  ELSE Nearest(sx, BigSub(a, b), e, FALSE)

\* x + y for mantissas brought to the same exponent
Aligned(sx, a, sy, b, e) ==
  IF sx = sy THEN Nearest(sx, BigAdd(a, b), e, FALSE)
  ELSE Difference(sx, a, sy, b, e)

\* x + y
FloatAdd(x, y) ==
  IF x = Zero THEN y
  ELSE IF y = Zero THEN x
  ELSE IF Top(x) - Top(y) > MantissaBits + 2 THEN x
  ELSE IF Top(y) - Top(x) > MantissaBits + 2 THEN y
  ELSE IF x.e < y.e
  THEN Aligned(x.s, x.m, y.s, ShiftLeft(y.m, y.e - x.e), x.e)
  ELSE Aligned(x.s, ShiftLeft(x.m, x.e - y.e), y.s, y.m, y.e)

\* x - y
FloatSub(x, y) == FloatAdd(x, Neg(y))

\* x * y
FloatMul(x, y) ==
  IF x = Zero \/ y = Zero THEN Zero
  ELSE Nearest(x.s * y.s, BigMul(x.m, y.m), x.e + y.e, FALSE)

\* the quotient d of x.m * 2^scale by y.m, as a float64
Rounded(x, y, scale, d) == Nearest(x.s * y.s, d.q, x.e - scale - y.e, d.r)

\* x / y, for y # 0: the mantissa of x is first made long enough for the
\* quotient to have more than 53 bits
FloatDiv(x, y) ==
  IF x = Zero THEN Zero
  ELSE LET room  == MantissaBits + 2 + BitLen(y.m) - BitLen(x.m)
           scale == IF room > 0 THEN room ELSE 0
       IN  Rounded(x, y, scale, BigDiv(ShiftLeft(x.m, scale), y.m))

\* math.Floor
Floor(x) ==
  IF x = Zero \/ x.e >= 0 THEN x
  ELSE IF x.s = 1 THEN Make(1, ShiftRight(x.m, -x.e), 0)
  ELSE Make(-1, BigAdd(ShiftRight(x.m, -x.e), <<1>>), 0)

\* the float64 of a whole number of the model
Float(n) == IF n < 0 THEN Make(-1, Digits(-n), 0) ELSE Make(1, Digits(n), 0)

\* math.Pow(10, float64(places))
Pow10(places) == Float(10 ^ places)

\* the float64 a decimal literal denotes: hi * 10^8 + lo over 10^scale
Literal(hi, lo, scale) ==
  FloatDiv(Nearest(1, BigAdd(MulSmall(Digits(hi), 100000000), Digits(lo)),
                   0, FALSE),
           Pow10(scale))

\* the constant .5
Half == Literal(0, 5, 1)

\* math.Floor(f*shift) / shift: the rounding without the half
roundDown(f, places) ==
  FloatDiv(Floor(FloatMul(f, Pow10(places))), Pow10(places))

\* round rounding func
round(f, places) ==
  FloatDiv(Floor(FloatAdd(FloatMul(f, Pow10(places)), Half)), Pow10(places))

\* a JSON number as it is written: the numeral hi * 10^8 + lo over 10^scale
Numeral(hi, lo, scale) == [hi |-> hi, lo |-> lo, scale |-> scale]

\* the float64 encoding/json decodes a JSON number into
Decode(num) == Literal(num.hi, num.lo, num.scale)

\* the locals airdrop, premine and totalCoinSupply of coinSupply
airdrop == Float(840000)
premine == Float(840000)
totalCoinSupply == Float(21000000)

\* currentCoinSupply/100000000 without the rounding to whole coins
coinSupplyAvailableUnrounded(currentCoinSupply) ==
  FloatDiv(currentCoinSupply, Float(100000000))

\* coinSupplyAvailable := round(currentCoinSupply/100000000, 0)
coinSupplyAvailable(currentCoinSupply) ==
  round(FloatDiv(currentCoinSupply, Float(100000000)), 0)

\* lines 504-513 of coinSupply: the CoinSupply that is cached and returned
CoinSupplyItem(currentCoinSupply, available, coinSupplyAfterGenesisBlock) ==
  LET hundred == Float(100)
  IN  [ PercentMined |->
          round(FloatMul(FloatDiv(available, totalCoinSupply), hundred), 1),
        CoinSupplyMined |-> available,
        CoinSupplyMinedRaw |-> currentCoinSupply,
        CoinSupplyTotal |-> Float(21000000),
        Airdrop |-> round(FloatMul(FloatDiv(airdrop, available), hundred), 1),
        Premine |-> round(FloatMul(FloatDiv(premine, available), hundred), 1),
        PoS |->
          round(FloatMul(FloatDiv(FloatMul(coinSupplyAfterGenesisBlock,
                                           Literal(0, 3, 1)),
                                  available), hundred), 1),
        PoW |->
          round(FloatMul(FloatDiv(FloatMul(coinSupplyAfterGenesisBlock,
                                           Literal(0, 6, 1)),
                                  available), hundred), 1),
        Subsidy |->
          round(FloatMul(FloatDiv(FloatMul(coinSupplyAfterGenesisBlock,
                                           Literal(0, 1, 1)),
                                  available), hundred), 1) ]

\* the strings of up to this many characters a provider can send as Version
VersionChars == {"1", ".", " ", "v", "+", "/"}
ShortVersions ==
  UNION { [1..n -> VersionChars] : n \in 0..3 }
LongVersions ==
  { PoolDataA["Version"].s, PoolDataB["Version"].s,
    <<"1", ".", "2", ".", "3", "-", "r", "c", "1", "+", "a", "b", "c">>,
    <<"1", ".", "2", ".", "3", "-", "r", "c", "1", "+", "a", "b", "c", "d">>,
    <<"(", "1", ".", "2", ".", "3", "-", "r", "c", "1", "+", "a", "b", "c", ")", "d", "e">>,
    <<"~", "~", "~", "~", "~", "~", "~", "~", "~", "~", "~", "~", "~", "~", "~">> }
VersionStrings == ShortVersions \cup LongVersions

\* lines 572-576 of stakepoolStats on a response with this Version: the
\* Version of the record that is then stored
SanitizeCall(str) ==
  /\ calc = NoCalc
  /\ calc' = [ fn |-> "PoolVersion", arg |-> str, places |-> 0,
               out |-> PoolAssign(NewStakepool("Alfa"),
                                  Retype(PoolDataA, "Version", JStr(str)),
                                  StartTime).Version ]
  /\ UNCHANGED << Stakepools, Vsps, Mutex, orch, waitGroup, spUnit, vspUnit, handler,
                  cycle, now, serving, crashed, cycleStakepools, cycleVsps,
                  Cache, clock, agg, promised, trial >>

\* the most decimal places round is called with
MaxPlaces == 3

\* the values round is evaluated on: small ones, ones that lie between two
\* multiples of 10^-places, and ones whose product with 10^places has more
\* than 53 bits
RoundInputs ==
  { Numeral(0, 0, 0),
    Numeral(0, 125, 2),
    Numeral(0, 2675, 3),
    Numeral(0, 1005, 3),
    Numeral(0, 56741835, 6),
    Numeral(11915785, 35131039, 8),
    Numeral(11915785, 35131039, 0),
    Numeral(89254705, 43902125, 3),
    Numeral(80969824, 83333175, 2) }

\* one evaluation of round
RoundCall(num, places) ==
  /\ calc = NoCalc
  /\ \E f \in { Decode(num) } :
       calc' = [ fn |-> "round", arg |-> num, places |-> places,
                 out |-> round(f, places) ]
  /\ UNCHANGED << Stakepools, Vsps, Mutex, orch, waitGroup, spUnit, vspUnit, handler,
                  cycle, now, serving, crashed, cycleStakepools, cycleVsps,
                  Cache, clock, agg, promised, trial >>

\* the supply_mined of the example in the documentation of gcs
DocSupply ==
  Numeral(11915785, 35131039, 0)

\* the supply_mined values dcrdata answers with: the one of the example, all
\* coins mined, as many as airdrop and premine together, a single coin, and
\* one that is not a whole number of atoms
Supplies ==
  { DocSupply,
    Numeral(21000000, 0, 0),
    Numeral(1680000, 0, 0),
    Numeral(1, 0, 0),
    Numeral(16800000, 26, 2) }

\* lines 497-513 of coinSupply on a response with this supply_mined: the
\* assignments in their order, each value computed before the next
CoinSupplyCall(num) ==
  /\ calc = NoCalc
  /\ \E supplyMined \in { Decode(num) } :
     \E currentCoinSupply \in { round(supplyMined, 1) } :
     \E available \in { coinSupplyAvailable(currentCoinSupply) } :
     \E coinSupplyAfterGenesisBlock \in
          { FloatSub(FloatSub(available, airdrop), premine) } :
       calc' = [ fn |-> "coinSupply", arg |-> num, places |-> 0,
                 out |-> CoinSupplyItem(currentCoinSupply, available,
                                        coinSupplyAfterGenesisBlock) ]
  /\ UNCHANGED << Stakepools, Vsps, Mutex, orch, waitGroup, spUnit, vspUnit, handler,
                  cycle, now, serving, crashed, cycleStakepools, cycleVsps,
                  Cache, clock, agg, promised, trial >>

CalcNext ==
  \/ \E str \in VersionStrings : SanitizeCall(str)
  \/ \E num \in RoundInputs, places \in 0..MaxPlaces : RoundCall(num, places)
  \/ \E num \in Supplies : CoinSupplyCall(num)

CalcSpec == CacheInit /\ [][CalcNext]_vars

(***************************************************************************)
(* The refresh under the scheduling the Go runtime gives: a goroutine that *)
(* can take a step takes it (weak fairness of every step of the            *)
(* orchestrator, of the units and of a request once it has arrived), and   *)
(* sync.RWMutex lets no reader and no writer starve (strong fairness of    *)
(* the steps that acquire it).  The arrival of a request is up to the      *)
(* clients; the ticker delivers its ticks.                                 *)
(***************************************************************************)
\* the keys of the configurations
FairPools == {"Alfa", "Everstake"}
FairVsps == {"teststakepool.decred.org", "test.stakey.net"}

Fairness ==
  /\ WF_vars(StakepoolDataAdd)
  /\ WF_vars(StakepoolDataWait)
  /\ WF_vars(VspDataWait)
  /\ WF_vars(Return)
  /\ WF_vars(Tick)
  /\ \A key \in FairPools :
       /\ WF_vars(key \in DOMAIN spUnit /\ StakepoolDataRange(key))
       /\ SF_vars(key \in DOMAIN spUnit /\ StakepoolStatsRLock(key))
       /\ WF_vars(key \in DOMAIN spUnit /\ StakepoolStatsRead(key))
       /\ WF_vars(key \in DOMAIN spUnit /\ StakepoolStatsFetch(key))
       /\ SF_vars(key \in DOMAIN spUnit /\ StakepoolStatsLock(key))
       /\ WF_vars(key \in DOMAIN spUnit /\ StakepoolStatsWrite(key))
       /\ WF_vars(key \in DOMAIN spUnit /\ StakepoolStatsWritten(key))
       /\ WF_vars(key \in DOMAIN spUnit /\ StakepoolDone(key))
       /\ WF_vars(key \in DOMAIN spUnit /\ StakepoolRelease(key))
  /\ \A url \in FairVsps :
       /\ WF_vars(url \in DOMAIN vspUnit /\ VspDataRange(url))
       /\ WF_vars(url \in DOMAIN vspUnit /\ VspAdd(url))
       /\ SF_vars(url \in DOMAIN vspUnit /\ VspStatsRLock(url))
       /\ WF_vars(url \in DOMAIN vspUnit /\ VspStatsRead(url))
       /\ WF_vars(url \in DOMAIN vspUnit /\ VspStatsFetch(url))
       /\ SF_vars(url \in DOMAIN vspUnit /\ VspStatsLock(url))
       /\ WF_vars(url \in DOMAIN vspUnit /\ VspStatsWrite(url))
       /\ WF_vars(url \in DOMAIN vspUnit /\ VspStatsWritten(url))
       /\ WF_vars(url \in DOMAIN vspUnit /\ VspDone(url))
       /\ WF_vars(url \in DOMAIN vspUnit /\ VspRelease(url))
  /\ \A h \in Handlers :
       /\ WF_vars(HandleMarshal(h))
       /\ WF_vars(HandleRespond(h))

FairSpec == Init /\ [][Next]_vars /\ Fairness


(***************************************************************************)
(* Vocabulary of the properties.                                           *)
(***************************************************************************)
\* the goroutine of key has made all its calls of stakepoolStats
SpFinished(key) == spUnit[key].pc \in {"wgDone", "release", "done"}
VspFinished(url) == vspUnit[url].pc \in {"wgDone", "release", "done"}

\* every call the unit made returned an error (each one logged by the caller)
AllFailed(u) == u.attempts # <<>> /\ \A i \in 1..Len(u.attempts) : u.attempts[i].err
\* the unit's last call returned nil
Succeeded(u) == u.attempts # <<>> /\ ~u.attempts[Len(u.attempts)].err

\* the unit is in a call that has not reached its store write
BeforeWrite(u) == u.pc \in {"add", "rlock", "read", "fetch", "lock", "write"}

\* C1: a unit none of whose attempts succeeded leaves the record of its
\* instance as it was when the cycle began, and no unit changes the record
\* before its response is decoded and the write lock is taken: in a call
\* that has not reached its write, and after a unit all of whose calls
\* returned an error, the stored record is the one of the cycle's start.
StaleReadGuarantee ==
  /\ \A k \in DOMAIN spUnit :
       (BeforeWrite(spUnit[k]) /\ ~Succeeded(spUnit[k])) \/ (SpFinished(k) /\ AllFailed(spUnit[k]))
         => Stakepools[k] = cycleStakepools[k]
  /\ \A u \in DOMAIN vspUnit :
       BeforeWrite(vspUnit[u]) \/ (VspFinished(u) /\ AllFailed(vspUnit[u]))
         => Vsps[u] = cycleVsps[u]

\* a stakepool refreshed in the first cycle fails both attempts of the second
StaleReadWitness ==
  \E k \in DOMAIN spUnit :
    /\ spUnit[k].pc = "done"
    /\ AllFailed(spUnit[k])
    /\ Len(spUnit[k].attempts) = 2
    /\ Stakepools[k].APIEnabled
    /\ Stakepools[k].LastUpdated < now


\* C2: whatever a provider answers, the process keeps running: no goroutine
\* ever dies of a panic raised while it handles a provider's response.
NoPanicOnProviderResponse == crashed.why # "interface conversion"

\* the records a stakepool can hold when no write of it is under way: the
\* configured one, or the one accepted from a valid response at some cycle
CycleTimes == { StartTime + TickerPeriod * i : i \in 0..(cycle - 1) }
WholeStakepool(key, rec) ==
  \/ rec = NewStakepool(key)
  \/ \E b \in PoolValidBodies, t \in CycleTimes :
       rec = StakepoolDecode(NewStakepool(key), Reply(StatusOK, b), t).pool
WholeVsp(url, rec) ==
  \/ rec = NewVsp(url)
  \/ \E b \in VspValidBodies, t \in CycleTimes :
       rec = VspDecode(NewVsp(url), Reply(StatusOK, b), t).vsp

Writing(u) == u.pc \in {"write", "writing"}

\* C3: a gsd or vsp handler serializes no record that is partly written:
\* while it holds the read lock no unit is inside its store write, and every
\* record of the response it then sends is a whole record (the configured
\* one or one accepted from a single response).
NoTornRead ==
  \A h \in Handlers :
    /\ handler[h].pc = "marshal" =>
         /\ \A k \in DOMAIN spUnit : ~Writing(spUnit[k])
         /\ \A u \in DOMAIN vspUnit : ~Writing(vspUnit[u])
    /\ (handler[h].pc = "respond" /\ handler[h].route = "gsd") =>
         \A k \in DOMAIN handler[h].resp : WholeStakepool(k, handler[h].resp[k])
    /\ (handler[h].pc = "respond" /\ handler[h].route = "vsp") =>
         \A u \in DOMAIN handler[h].resp : WholeVsp(u, handler[h].resp[u])

\* a gsd request holds the read lock while a unit whose response replaces a
\* record accepted earlier waits for the write lock
NoTornReadWitness ==
  \E h \in Handlers, k \in DOMAIN spUnit :
    /\ handler[h].pc = "marshal"
    /\ handler[h].route = "gsd"
    /\ spUnit[k].pc = "lock"
    /\ Stakepools[k].APIEnabled
    /\ spUnit[k].pool.Version # Stakepools[k].Version

\* the goroutine is at a statement that reads, iterates or writes a map
AccessesMap(g) ==
  \/ g = "orch" /\ orch.pc \in {"spRange", "vspRange"} /\ orch.todo # {}
  \/ g \in DOMAIN spUnit /\ spUnit[g].pc \in {"read", "write", "writing"}
  \/ g \in DOMAIN vspUnit /\ vspUnit[g].pc \in {"read", "write", "writing"}
  \/ g \in Handlers /\ handler[g].pc = "marshal"

Goroutines == {"orch"} \cup DOMAIN spUnit \cup DOMAIN vspUnit \cup Handlers

\* C4: every access to the Stakepools and Vsps maps is made by a goroutine
\* that holds the store mutex (writes under the write lock), so that no
\* iteration of a map meets a write to it.
EveryMapAccessLocked ==
  /\ \A g \in Goroutines : AccessesMap(g) => Holds(g)
  /\ \A k \in DOMAIN spUnit : Writing(spUnit[k]) => Mutex.w = k
  /\ \A u \in DOMAIN vspUnit : Writing(vspUnit[u]) => Mutex.w = u
  /\ crashed.why # "concurrent map iteration and map write"


\* C5: a step in which the unit of instance p writes the store changes the
\* record of p alone: every other stakepool and every VSP keeps its record.
WriteChangesOnlyItsRecord ==
  [][ /\ \A p \in DOMAIN spUnit :
           Writing(spUnit[p]) /\ spUnit'[p].pc # spUnit[p].pc =>
             /\ \A q \in DOMAIN Stakepools \ {p} : Stakepools'[q] = Stakepools[q]
             /\ Vsps' = Vsps
      /\ \A p \in DOMAIN vspUnit :
           Writing(vspUnit[p]) /\ vspUnit'[p].pc # vspUnit[p].pc =>
             /\ \A q \in DOMAIN Vsps \ {p} : Vsps'[q] = Vsps[q]
             /\ Stakepools' = Stakepools ]_vars

\* a stakepool has been written from its response while the unit of another
\* one, refreshed in an earlier cycle, is still waiting for its response
WriteChangesOnlyItsRecordWitness ==
  \E p, q \in DOMAIN spUnit :
    /\ p # q
    /\ spUnit[p].pc = "wgDone"
    /\ Succeeded(spUnit[p])
    /\ Stakepools[p] # cycleStakepools[p]
    /\ spUnit[q].pc = "fetch"
    /\ Stakepools[q].APIEnabled

\* the process died of a panic raised in the goroutine of g
Panicked(g) == crashed.why = "interface conversion" /\ crashed.by = g

\* C6: the failure of one instance's unit is contained.  No failure of a
\* unit stops the process; and once the unit of q has failed and the unit
\* of p has succeeded, p holds the record accepted in this cycle, q holds
\* the record it had when the cycle began, and an error was logged for q.
FailureContained ==
  /\ \A q \in DOMAIN spUnit \cup DOMAIN vspUnit : ~Panicked(q)
  /\ \A p, q \in DOMAIN spUnit :
       SpFinished(q) /\ AllFailed(spUnit[q]) /\ SpFinished(p) /\ Succeeded(spUnit[p]) =>
         /\ Stakepools[p].APIEnabled /\ Stakepools[p].LastUpdated = now
         /\ Stakepools[q] = cycleStakepools[q]
         /\ Len(spUnit[q].attempts) >= 1
  /\ \A p, q \in DOMAIN vspUnit :
       VspFinished(q) /\ AllFailed(vspUnit[q]) /\ VspFinished(p) /\ Succeeded(vspUnit[p]) =>
         /\ Vsps[p].LastUpdated = now
         /\ Vsps[q] = cycleVsps[q]
         /\ Len(vspUnit[q].attempts) >= 1

\* the stakepool units that have not yet called Done
SpNotDone == { k \in DOMAIN spUnit : spUnit[k].pc \notin {"release", "done"} }

\* C7: while stakepoolData runs, the counter of its WaitGroup is the number
\* of units that have not called Done (so it is never negative and is zero
\* exactly when all have), and stakepoolData returns from Wait only when
\* every unit has finished its calls of stakepoolStats and called Done.
StakepoolBarrier ==
  /\ [](orch.pc \in {"spRange", "spBlocked"} =>
          /\ waitGroup.n = Cardinality(SpNotDone)
          /\ waitGroup.n >= 0)
  /\ [][ orch.pc \in {"spRange", "spBlocked"} /\ orch'.pc \notin {"spRange", "spBlocked"} =>
           /\ Running'
           /\ \A k \in DOMAIN spUnit :
                spUnit[k].pc \in {"release", "done"} /\ spUnit[k].attempts # <<>> ]_vars

\* stakepoolData is blocked in Wait with one unit done and the other in its
\* second attempt
StakepoolBarrierWitness ==
  /\ orch.pc = "spBlocked"
  /\ \E p, q \in DOMAIN spUnit :
       /\ spUnit[p].pc = "done"
       /\ spUnit[q].pc = "fetch"
       /\ spUnit[q].apiVersion = StakepoolAPIInitialVersion

\* C8: vspData has returned (NewService returns, requests are served) only
\* when vspStats has completed for every configured VSP.
VspBarrier ==
  /\ orch.pc \in {"return", "idle"} => \A u \in DOMAIN vspUnit : vspUnit[u].pc = "done"
  /\ serving /\ cycle = 1 =>
       /\ \A u \in DOMAIN vspUnit : vspUnit[u].pc = "done"
       /\ \A k \in DOMAIN spUnit : spUnit[k].pc \in {"idle", "done"}

\* C9: a stakepool unit calls stakepoolStats with version 2 first, with
\* version 1 exactly when the version-2 call failed, and never a third time;
\* a version-2 call that fails does not end the unit without the version-1
\* call; after a failed version-2 call and a successful version-1 call the
\* record is the one accepted in this cycle.  A VSP unit calls vspStats once.
VersionFallback ==
  /\ \A k \in DOMAIN spUnit :
       LET a == spUnit[k].attempts
       IN  /\ Len(a) <= 2
           /\ Len(a) >= 1 => a[1].v = StakepoolAPICurrentVersion
           /\ Len(a) = 2 => a[1].err /\ a[2].v = StakepoolAPIInitialVersion
           /\ spUnit[k].apiVersion = StakepoolAPIInitialVersion <=> (Len(a) >= 1 /\ a[1].err)
           /\ SpFinished(k) => Len(a) = (IF a[1].err THEN 2 ELSE 1)
           /\ ~(Panicked(k) /\ spUnit[k].apiVersion = StakepoolAPICurrentVersion)
           /\ SpFinished(k) /\ Len(a) = 2 /\ ~a[2].err =>
                Stakepools[k].APIEnabled /\ Stakepools[k].LastUpdated = now
  /\ \A u \in DOMAIN vspUnit :
       /\ Len(vspUnit[u].attempts) <= 1
       /\ VspFinished(u) => Len(vspUnit[u].attempts) = 1

\* the result fields a stakepool record takes from the "data" of a response
PoolResult(data) ==
  IF data = PoolDataA
  THEN [ Immature |-> 2, Live |-> 3, Voted |-> 4, Missed |-> 1, PoolFees |-> 50,
         ProportionLive |-> 1, ProportionMissed |-> 0, UserCount |-> 7,
         UserCountActive |-> 6, APIVersionsSupported |-> <<JNum(10), JNum(20)>>,
         Version |-> <<"1", ".", "5", ".", "0">> ]
  ELSE [ Immature |-> 3, Live |-> 4, Voted |-> 5, Missed |-> 2, PoolFees |-> 75,
         ProportionLive |-> 2, ProportionMissed |-> 3, UserCount |-> 9,
         UserCountActive |-> 8, APIVersionsSupported |-> <<JNum(20)>>,
         Version |-> <<"v", "1", ".", "6", ".", "0", "p", "r", "e", "b", "u", "i", "l">> ]

\* the result fields a VSP record takes from a vspinfo response
VspResult(info) ==
  IF info = VspInfoA
  THEN [ APIVersions |-> <<3>>, FeePercentage |-> 50, Closed |-> FALSE,
         Voting |-> 39, Voted |-> 57, Revoked |-> 8 ]
  ELSE [ APIVersions |-> <<3, 4>>, FeePercentage |-> 8, Closed |-> TRUE,
         Voting |-> 1, Voted |-> 2, Revoked |-> 3 ]

\* C10: once the unit of an instance has succeeded, every result field of
\* the stored record has the value of the accepted response: counters
\* truncated to integers, fee and proportions as received, the version list
\* as received, the version string normalized and cut to 13 characters, and
\* APIEnabled set for a stakepool.
DecodedFieldsStored ==
  /\ \A k \in DOMAIN spUnit :
       SpFinished(k) /\ Succeeded(spUnit[k]) =>
         /\ spUnit[k].got \in {PoolDataA, PoolDataB}
         /\ \A f \in DOMAIN PoolResult(spUnit[k].got) :
              Stakepools[k][f] = PoolResult(spUnit[k].got)[f]
         /\ Stakepools[k].APIEnabled
  /\ \A u \in DOMAIN vspUnit :
       VspFinished(u) /\ Succeeded(vspUnit[u]) =>
         /\ vspUnit[u].got \in {VspInfoA, VspInfoB}
         /\ \A f \in DOMAIN VspResult(vspUnit[u].got) :
              Vsps[u][f] = VspResult(vspUnit[u].got)[f]

\* a stakepool that holds the record of the first response is refreshed in
\* the next cycle from the response with fractional counters and a long
\* version string
DecodedFieldsStoredWitness ==
  \E k \in DOMAIN spUnit :
    /\ SpFinished(k)
    /\ Succeeded(spUnit[k])
    /\ spUnit[k].got = PoolDataB
    /\ cycleStakepools[k].Version = <<"1", ".", "5", ".", "0">>
    /\ Stakepools[k].Live = 4


\* C11: no step lowers the LastUpdated of an instance; the step that
\* completes the store write of a unit leaves a LastUpdated greater than the
\* one the instance had before the write; and a unit all of whose calls
\* failed leaves LastUpdated as it was at the start of the cycle.
LastUpdatedMonotonic ==
  /\ [][ /\ \A k \in DOMAIN Stakepools :
              /\ Stakepools'[k].LastUpdated >= Stakepools[k].LastUpdated
              /\ spUnit[k].pc = "writing" /\ spUnit'[k].pc = "wgDone" =>
                   Stakepools'[k].LastUpdated > cycleStakepools[k].LastUpdated
         /\ \A u \in DOMAIN Vsps :
              /\ Vsps'[u].LastUpdated >= Vsps[u].LastUpdated
              /\ vspUnit[u].pc = "writing" /\ vspUnit'[u].pc = "wgDone" =>
                   Vsps'[u].LastUpdated > cycleVsps[u].LastUpdated ]_vars
  /\ [](/\ \A k \in DOMAIN spUnit :
             SpFinished(k) /\ AllFailed(spUnit[k]) =>
               Stakepools[k].LastUpdated = cycleStakepools[k].LastUpdated
        /\ \A u \in DOMAIN vspUnit :
             VspFinished(u) /\ AllFailed(vspUnit[u]) =>
               Vsps[u].LastUpdated = cycleVsps[u].LastUpdated)

\* an instance refreshed in the first cycle has been refreshed again in the
\* second, and another one refreshed in the first has failed in the second
LastUpdatedMonotonicWitness ==
  \/ \E p, q \in DOMAIN spUnit :
       /\ SpFinished(p) /\ Succeeded(spUnit[p])
       /\ cycleStakepools[p].LastUpdated = StartTime
       /\ Stakepools[p].LastUpdated = StartTime + TickerPeriod
       /\ SpFinished(q) /\ AllFailed(spUnit[q])
       /\ Stakepools[q].LastUpdated = StartTime
  \/ \E p, q \in DOMAIN vspUnit :
       /\ VspFinished(p) /\ Succeeded(vspUnit[p])
       /\ cycleVsps[p].LastUpdated = StartTime
       /\ Vsps[p].LastUpdated = StartTime + TickerPeriod
       /\ VspFinished(q) /\ AllFailed(vspUnit[q])
       /\ Vsps[q].LastUpdated = StartTime

\* C12: a dc or gcs request is answered from the cache exactly when the
\* cache has the entry and the time of the request is before its expiry
\* (then with the entry's item and without a fetch); otherwise it goes on to
\* fetch, and has fetched when it ends.  The cache changes only in the store
\* of a request and in a clear, never by the passing of time.
CacheExpiry ==
  /\ [][ /\ \A h \in AggHandlers :
              Resting(agg[h]) /\ agg'[h] # agg[h] /\ agg'[h].route \in AggRoutes =>
                LET key == CacheKey(agg'[h].route)
                    valid == Has(Cache, key) /\ clock < Cache[key].expiry
                IN  /\ agg'[h].hit <=> valid
                    /\ valid => /\ agg'[h].pc = "done"
                                /\ agg'[h].status = StatusOK
                                /\ agg'[h].body = << ItemChunk(Cache[key].item) >>
                                /\ agg'[h].fetches = 0
                    /\ ~valid => agg'[h].pc = "fetch" /\ agg'[h].body = <<>>
         /\ clock' # clock => Cache' = Cache
         /\ Cache' # Cache =>
              \E h \in AggHandlers : agg[h].pc = "store" \/ agg'[h].route = "cc" ]_vars
  /\ [](\A h \in AggHandlers :
          agg[h].pc = "done" /\ agg[h].route \in AggRoutes /\ ~agg[h].hit =>
            agg[h].fetches >= 1)

\* a gcs request arrives at the very instant at which the entry expires, and
\* goes on to fetch
CacheExpiryWitness ==
  \E h \in AggHandlers :
    /\ agg[h].pc = "fetch"
    /\ agg[h].route = "gcs"
    /\ Has(Cache, "gsc")
    /\ Cache["gsc"].expiry = agg[h].now
    /\ clock = agg[h].now

\* C13: a gcs request answered from the cache has made no remote request
\* and one that missed has made exactly one when it ends; the store of a
\* gcs request leaves an entry that expires one minute after the request
\* began; and a gcs request that begins before the latest expiry stored
\* since the cache was last cleared is answered from the cache.
GcsFetchOnce ==
  /\ [](\A h \in AggHandlers :
          agg[h].route = "gcs" =>
            /\ agg[h].fetches <= 1
            /\ agg[h].pc = "done" => (agg[h].hit <=> agg[h].fetches = 0))
  /\ [][ \A h \in AggHandlers :
           /\ agg[h].pc = "store" /\ agg[h].route = "gcs" /\ agg'[h].pc = "done" =>
                /\ Has(Cache', "gsc")
                /\ Cache'["gsc"].expiry = agg[h].now + GcsTTL
                /\ Cache'["gsc"].item = agg[h].got
           /\ Resting(agg[h]) /\ agg'[h] # agg[h] /\ agg'[h].route = "gcs"
                /\ clock < promised["gsc"] => agg'[h].hit ]_vars

\* the remote addresses whose host is "::1" or "127.0.0.1"
LoopbackAddrs == { Loopback4 \o Port, <<"[">> \o Loopback6 \o <<"]">> \o Port }

\* C14: a cc request from any other remote address, one that cannot be
\* split included, is answered with status 400 and the "unauthorized" body
\* and nothing else, and leaves the cache as it is.
ClearCacheUnauthorized ==
  /\ [](\A h \in AggHandlers :
          agg[h].route = "cc" /\ agg[h].pc = "done" /\ agg[h].addr \notin LoopbackAddrs =>
            /\ agg[h].status = StatusBadRequest
            /\ agg[h].body = << UnauthorizedChunk >>)
  /\ [][ \A h \in AggHandlers :
           agg'[h] # agg[h] /\ agg'[h].route = "cc" /\ agg'[h].addr \notin LoopbackAddrs =>
             Cache' = Cache ]_vars

\* C15: a cc request from a loopback address is answered "cache cleared"
\* and leaves the cache empty; and an aggregate read that is answered from
\* the cache is never given an entry that comes from a request begun before
\* a clear: after a clear a read gets what was fetched after it.
ClearedCacheFresh ==
  /\ [][ \A h \in AggHandlers :
           agg'[h] # agg[h] /\ agg'[h].route = "cc" /\ agg'[h].addr \in LoopbackAddrs =>
             /\ Cache' = EmptyObj
             /\ agg'[h].status = StatusOK
             /\ agg'[h].body = << ClearedChunk >> ]_vars
  /\ [](\A h \in AggHandlers :
          agg[h].route \in AggRoutes /\ agg[h].pc = "done" /\ agg[h].hit => ~agg[h].old)

\* the responses that are well formed but for one required field left out
PoolOmits(k) == Reply(StatusOK, PoolBody(JStr(Success), JObj(Drop(PoolDataA, k))))
VspOmits(k) == Reply(StatusOK, ObjBody(Drop(VspInfoA, k)))

\* C16: when a stakepool response with status "success" leaves out one of
\* the ten required fields, or a vspinfo response one of its six, the call
\* returns a missing-fields error whose text names that field and no other,
\* and the record in the map is as it was.
MissingFieldNamed ==
  /\ \A k \in PoolRequired :
       trial.pc = "returned" /\ trial.of = "stakepoolStats" /\ trial.resp = PoolOmits(k) =>
         /\ trial.result = "error"
         /\ trial.why = "missing"
         /\ trial.names = {k}
         /\ trial.after = trial.before
  /\ \A k \in VspRequired :
       trial.pc = "returned" /\ trial.of = "vspStats" /\ trial.resp = VspOmits(k) =>
         /\ trial.result = "error"
         /\ trial.why = "missing"
         /\ trial.names = {k}
         /\ trial.after = trial.before

\* wrong-typed: a required field that is there with a value of another JSON type
PoolRetyped(k) ==
  { Reply(StatusOK, PoolBody(JStr(Success), JObj(Retype(PoolDataA, k, v)))) :
      v \in {JNull, JBool(TRUE)} }
VspRetyped(k) ==
  { Reply(StatusOK, ObjBody(Retype(VspInfoA, k, v))) :
      v \in {JNull, JStr(<<"5">>), JArr(<<JStr(<<"3">>)>>)} \ {VspInfoA[k]} }

\* C17: a response in which a required field is present with the wrong
\* JSON type makes the call return an error, no panic, and the record in
\* the map is as it was: no record with zero values is stored.
WrongTypeIsDecodeError ==
  /\ \A k \in PoolRequired :
       trial.pc = "returned" /\ trial.of = "stakepoolStats" /\ trial.resp \in PoolRetyped(k) =>
         /\ trial.result = "error"
         /\ trial.after = trial.before
  /\ \A k \in VspRequired :
       trial.pc = "returned" /\ trial.of = "vspStats" /\ trial.resp \in VspRetyped(k) =>
         /\ trial.result = "error"
         /\ trial.after = trial.before

\* C18: the key sets of Stakepools and of Vsps are those NewService built
\* them with, in every state: no step of a refresh cycle, of a retry or of
\* a request adds a key or removes one.
KeySetsFixed ==
  /\ [](\E c \in Configurations :
          DOMAIN Stakepools = c.pools /\ DOMAIN Vsps = c.vsps)
  /\ [][ DOMAIN Stakepools' = DOMAIN Stakepools /\ DOMAIN Vsps' = DOMAIN Vsps ]_vars

\* a later cycle in which both maps have been written, with a failed
\* attempt behind one of the stakepool units
KeySetsFixedWitness ==
  /\ cycle = MaxCycles
  /\ \E k \in DOMAIN Stakepools : Stakepools[k].LastUpdated > 0
  /\ \E u \in DOMAIN Vsps : Vsps[u].LastUpdated > 0
  /\ \E k \in DOMAIN Stakepools : Len(spUnit[k].attempts) = 2

\* C19: in every state every stakepool record has the Network, URL and
\* Launched of its entry in the table of NewService, and every VSP record
\* the Network and Launched of its entry: refreshes that succeed and
\* refreshes that fail change the other fields only.
IdentityFieldsKept ==
  /\ \A k \in DOMAIN Stakepools :
       /\ Stakepools[k].Network = PoolEntry(k).Network
       /\ Stakepools[k].URL = PoolEntry(k).URL
       /\ Stakepools[k].Launched = PoolEntry(k).Launched
  /\ \A u \in DOMAIN Vsps :
       /\ Vsps[u].Network = VspEntry(u).Network
       /\ Vsps[u].Launched = VspEntry(u).Launched

\* a stakepool and a VSP have been refreshed, and a unit of the running
\* cycle has failed
IdentityFieldsKeptWitness ==
  /\ \E k \in DOMAIN Stakepools :
       Stakepools[k].LastUpdated > 0 /\ Stakepools[k].APIEnabled
  /\ \E u \in DOMAIN Vsps : Vsps[u].LastUpdated > 0
  /\ \/ \E k \in DOMAIN Stakepools : SpFinished(k) /\ AllFailed(spUnit[k])
     \/ \E u \in DOMAIN Vsps : VspFinished(u) /\ AllFailed(vspUnit[u])

\* C20: the answer to a gsd request and to a vsp request is status 200
\* with a member for every configured instance, and an instance that no
\* call has refreshed so far is in it with the record NewService gave it:
\* counters zero, LastUpdated 0, APIEnabled false, identity as configured.
FullSetAnswered ==
  \A h \in Handlers :
    handler[h].pc = "respond" =>
      /\ handler[h].status = StatusOK
      /\ handler[h].route = "gsd" =>
           /\ DOMAIN handler[h].resp = DOMAIN Stakepools
           /\ \E c \in Configurations : DOMAIN handler[h].resp = c.pools
           /\ \A k \in DOMAIN Stakepools :
                Stakepools[k].LastUpdated = 0 => handler[h].resp[k] = NewStakepool(k)
      /\ handler[h].route = "vsp" =>
           /\ DOMAIN handler[h].resp = DOMAIN Vsps
           /\ \E c \in Configurations : DOMAIN handler[h].resp = c.vsps
           /\ \A u \in DOMAIN Vsps :
                Vsps[u].LastUpdated = 0 => handler[h].resp[u] = NewVsp(u)

\* a gsd answer that holds a refreshed stakepool next to one that has never
\* been refreshed, after a unit of the latter failed
FullSetAnsweredWitness ==
  \E h \in Handlers :
    /\ handler[h].pc = "respond"
    /\ handler[h].route = "gsd"
    /\ \E k, q \in DOMAIN Stakepools :
         /\ handler[h].resp[k].LastUpdated > 0
         /\ Stakepools[q].LastUpdated = 0
         /\ handler[h].resp[q] = NewStakepool(q)
         /\ SpFinished(q) /\ AllFailed(spUnit[q])

\* a step of a HandleRoutes call, whatever its branch
HandlerStep == handler' # handler \/ agg' # agg \/ Cache' # Cache

\* a step of a refresh unit at its write to the map
UnitWrites ==
  \/ \E k \in DOMAIN Stakepools :
       spUnit[k].pc \in {"write", "writing"} /\ spUnit'[k] # spUnit[k]
  \/ \E u \in DOMAIN Vsps :
       vspUnit[u].pc \in {"write", "writing"} /\ vspUnit'[u] # vspUnit[u]

\* C21: a step of a request, in whichever branch of HandleRoutes (dc, gcs,
\* vsp, gsd, cc, unknown tag), leaves every Stakepools and Vsps record as
\* it is and is no step of a refresh unit, so a vsp or gsd request makes no
\* remote fetch; a record changes only in the write step of a refresh unit.
RequestsReadOnly ==
  [][ /\ HandlerStep =>
           /\ Stakepools' = Stakepools
           /\ Vsps' = Vsps
           /\ spUnit' = spUnit
           /\ vspUnit' = vspUnit
      /\ handler' # handler => agg' = agg /\ Cache' = Cache
      /\ (Stakepools' # Stakepools \/ Vsps' # Vsps) => UnitWrites /\ ~HandlerStep ]_vars

\* requests of both kinds have been answered, one of them a clear of the
\* cache, after a refresh wrote a record, and a unit is at its write
RequestsReadOnlyWitness ==
  /\ agg["a1"].pc = "done"
  /\ agg["a1"].route = "cc"
  /\ Has(Cache, "gsc")
  /\ \E h \in Handlers : handler[h].pc = "respond"
  /\ \E k \in DOMAIN Stakepools : Stakepools[k].LastUpdated > 0
  /\ \E u \in DOMAIN Vsps : vspUnit[u].pc = "write"

\* C22: a unit that is at its remote fetch holds the mutex neither as a
\* reader nor as the writer; the mutex is held only by a unit at its read
\* of the map, by a unit at its write to the map, and by a request at its
\* serialization; and a unit asks for the write lock only with the decoded
\* response in hand.
NoLockAcrossFetch ==
  /\ \A k \in DOMAIN Stakepools :
       /\ spUnit[k].pc = "fetch" => ~Holds(k)
       /\ k \in Mutex.r => spUnit[k].pc = "read"
       /\ Mutex.w = k => spUnit[k].pc \in {"write", "writing"}
       /\ spUnit[k].pc \in {"lock", "write", "writing"} =>
            /\ PoolRequired \subseteq DOMAIN spUnit[k].got
            /\ spUnit[k].pool = PoolAssign(Stakepools[k], spUnit[k].got, spUnit[k].pool.LastUpdated)
                 \/ spUnit[k].pc = "writing"
  /\ \A u \in DOMAIN Vsps :
       /\ vspUnit[u].pc = "fetch" => ~Holds(u)
       /\ u \in Mutex.r => vspUnit[u].pc = "read"
       /\ Mutex.w = u => vspUnit[u].pc \in {"write", "writing"}
       /\ vspUnit[u].pc \in {"lock", "write", "writing"} =>
            VspRequired \subseteq DOMAIN vspUnit[u].got
  /\ \A h \in Handlers :
       /\ h \in Mutex.r => handler[h].pc = "marshal"
       /\ Mutex.w # h
  /\ Mutex.w \in {""} \cup DOMAIN Stakepools \cup DOMAIN Vsps
  /\ Mutex.r \subseteq DOMAIN Stakepools \cup DOMAIN Vsps \cup Handlers

\* a stakepool unit is at its fetch while a request holds the read lock and
\* the other unit waits for the write lock
NoLockAcrossFetchWitness ==
  /\ \E k \in DOMAIN Stakepools : spUnit[k].pc = "fetch"
  /\ \E h \in Handlers : h \in Mutex.r
  /\ \/ \E k \in DOMAIN Stakepools : spUnit[k].pc = "lock"
     \/ \E u \in DOMAIN Vsps : vspUnit[u].pc = "lock"

\* the goroutine waits for the read lock, for the write lock
WaitsRLock(g) ==
  \/ g \in DOMAIN spUnit /\ spUnit[g].pc = "rlock"
  \/ g \in DOMAIN vspUnit /\ vspUnit[g].pc = "rlock"
WaitsLock(g) ==
  \/ g \in DOMAIN spUnit /\ spUnit[g].pc = "lock"
  \/ g \in DOMAIN vspUnit /\ vspUnit[g].pc = "lock"

\* the goroutine holds the mutex and its next step gives it back
Releasing(g) ==
  \/ g \in DOMAIN spUnit /\ spUnit[g].pc \in {"read", "write", "writing"}
  \/ g \in DOMAIN vspUnit /\ vspUnit[g].pc \in {"read", "write", "writing"}
  \/ g \in Handlers /\ handler[g].pc = "marshal"

\* C23: no goroutine acquires the mutex while it holds it; whoever holds
\* it is at a step that gives it back, so that while the process runs a
\* goroutine that waits for the mutex is never stuck with every other one;
\* and every unit that asks for the read lock or for the write lock gets it.
LockingDeadlockFree ==
  /\ [][ \A g \in Goroutines :
           (g \in Mutex'.r /\ g \notin Mutex.r) \/ (Mutex'.w = g /\ Mutex.w # g) =>
             ~Holds(g) ]_vars
  /\ [](\A g \in Goroutines : Holds(g) => Releasing(g))
  /\ \A g \in FairPools \cup FairVsps :
       /\ WaitsRLock(g) ~> (g \in Mutex.r)
       /\ WaitsLock(g) ~> (Mutex.w = g)

\* the unit of g has been launched and has not returned
UnitRuns(g) ==
  \/ g \in DOMAIN spUnit /\ spUnit[g].pc \notin {"idle", "done"}
  \/ g \in DOMAIN vspUnit /\ vspUnit[g].pc \notin {"idle", "done"}

\* C24: a stakepool unit makes at most two attempts and a VSP unit at most
\* one; with every fetch returning, every unit that was launched returns,
\* and the orchestrator, once in a cycle, gets past its barriers and back to
\* idle.
CycleTerminates ==
  /\ [](/\ \A k \in DOMAIN spUnit : Len(spUnit[k].attempts) <= 2
        /\ \A u \in DOMAIN vspUnit : Len(vspUnit[u].attempts) <= 1)
  /\ \A g \in FairPools \cup FairVsps : UnitRuns(g) ~> ~UnitRuns(g)
  /\ (orch.pc # "idle") ~> (orch.pc = "idle")

\* the order of the orchestrator's positions: the stakepool fan-out and its
\* barrier, the VSP fan-out and its barrier, the return, idle
OrchOrder ==
  { <<"stakepoolData", "spRange">>, <<"spRange", "spBlocked">>, <<"spRange", "vspRange">>,
    <<"spBlocked", "vspRange">>, <<"vspRange", "vspBlocked">>, <<"vspRange", "return">>,
    <<"vspBlocked", "return">>, <<"return", "idle">>, <<"idle", "stakepoolData">> }

\* C25: the orchestrator goes from idle through the stakepool refresh and
\* then the VSP refresh back to idle, one tick at a time; every cycle that
\* has begun is completed; and whatever happened in a cycle, the next tick
\* starts the next cycle.
CyclesRepeat ==
  /\ [][ /\ orch'.pc # orch.pc => << orch.pc, orch'.pc >> \in OrchOrder
         /\ cycle' # cycle => orch.pc = "idle" /\ orch'.pc = "stakepoolData"
                                /\ cycle' = cycle + 1 ]_vars
  /\ \A c \in 1..MaxCycles : (cycle = c) ~> (cycle = c /\ orch.pc = "idle")
  /\ \A c \in 1..(MaxCycles - 1) : (cycle = c) ~> (cycle = c + 1)

\* C26: a call of stakepoolStats or vspStats is one call of getHTTP on one
\* response; getHTTP returns the body, and the whole of it, exactly when
\* the request was sent, the status is 200 and the body was read; in every
\* other case it returns an error and no bytes, and the call that made it
\* returns that error.
GetHTTPOnlyOnSuccess ==
  trial.pc = "returned" =>
    LET got == getHTTP(trial.resp)
        fine == trial.resp.net = "ok" /\ trial.resp.status = StatusOK
    IN  /\ got.err = "nil" <=> fine
        /\ fine => got.body = trial.resp.body
        /\ ~fine => /\ got.body = NilBytes
                    /\ trial.result = "error"
                    /\ trial.why = got.err
                    /\ trial.after = trial.before
        /\ trial.result = "error" /\ trial.why \in {"send", "status", "read"} => ~fine

\* a call whose request got status 404 with a body that would decode
GetHTTPOnlyOnSuccessWitness ==
  /\ trial.pc = "returned"
  /\ trial.resp = Reply(404, PoolBody(JStr(Success), JObj(PoolDataA)))
  /\ trial.result = "error"
  /\ trial.why = "status"

\* floor(x * 10^places + 1/2) in exact arithmetic, for x >= 0
ExactFloor(x, places) ==
  IF x = Zero THEN <<>>
  ELSE LET scaled == MulSmall(x.m, 10 ^ places)
       IN  IF x.e >= 0 THEN ShiftLeft(scaled, x.e)
           ELSE ShiftRight(BigAdd(scaled, ShiftLeft(<<1>>, -x.e - 1)), -x.e)

\* the float64 nearest to floor(x * 10^places + 1/2) / 10^places
ExactRound(x, places) ==
  LET d == BigDiv(ShiftLeft(ExactFloor(x, places), 84), Digits(10 ^ places))
  IN  Nearest(1, d.q, -84, d.r)

\* C27: for every value x and place count n, round(x, n) is
\* floor(x * 10^n + 0.5) / 10^n (as near as a float64 can be to it), and
\* rounding what round returned to the same number of places changes
\* nothing.
RoundingLaw ==
  calc.fn = "round" =>
    /\ calc.out = ExactRound(Decode(calc.arg), calc.places)
    /\ round(calc.out, calc.places) = calc.out

\* C29: for supply_mined = 1191578535131039 the item has CoinSupplyMinedRaw
\* 1191578535131039 and CoinSupplyMined 11915785: the input rounded to one
\* place, divided by 1e8, and then rounded to whole coins.
DocSupplyMined ==
  calc.fn = "coinSupply" /\ calc.arg = DocSupply =>
    /\ calc.out.CoinSupplyMinedRaw = Decode(DocSupply)
    /\ calc.out.CoinSupplyMinedRaw = round(Decode(DocSupply), 1)
    /\ calc.out.CoinSupplyMined = Float(11915785)
    /\ calc.out.CoinSupplyMined =
         round(FloatDiv(calc.out.CoinSupplyMinedRaw, Float(100000000)), 0)

\* the item of the input of the example, with a CoinSupplyMined that is a
\* whole number
DocSupplyMinedWitness ==
  /\ calc.fn = "coinSupply"
  /\ calc.arg = DocSupply
  /\ calc.out.CoinSupplyMined = Floor(calc.out.CoinSupplyMined)
  /\ calc.out.CoinSupplyMined # Zero

\* C29 as stated: for supply_mined = 1191578535131039 the item has
\* CoinSupplyMinedRaw 1191578535131039 and a CoinSupplyMined that is
\* 11915785.4 to one decimal place, the input rounded to one place and
\* divided by 1e8.
DocSupplyMinedTenths ==
  calc.fn = "coinSupply" /\ calc.arg = DocSupply =>
    /\ calc.out.CoinSupplyMinedRaw = Decode(DocSupply)
    /\ round(calc.out.CoinSupplyMined, 1) =
         Literal(1, 19157854, 1)

\* the percentage x is of y, rounded to one decimal place
Percent(x, y) == round(FloatMul(FloatDiv(x, y), Float(100)), 1)

\* mined - airdrop - premine, times a share
Share(mined, tenths) ==
  FloatMul(FloatSub(FloatSub(mined, Float(840000)), Float(840000)),
           Literal(0, tenths, 1))

\* C30: every item has its percentages computed from its own
\* CoinSupplyMined, which is computed from its own CoinSupplyMinedRaw, and
\* from airdrop = 840000, premine = 840000 and total = 21000000, each
\* rounded half up to one decimal place; for supply_mined =
\* 1191578535131039 they are 56.7, 7, 7, 25.8, 51.5 and 8.6.
PercentagesFromOwnTotal ==
  calc.fn = "coinSupply" =>
    LET item  == calc.out
        mined == item.CoinSupplyMined
    IN  /\ item.CoinSupplyMinedRaw = round(Decode(calc.arg), 1)
        /\ mined = round(FloatDiv(item.CoinSupplyMinedRaw, Float(100000000)), 0)
        /\ item.CoinSupplyTotal = Float(21000000)
        /\ item.PercentMined = Percent(mined, item.CoinSupplyTotal)
        /\ item.Airdrop = Percent(Float(840000), mined)
        /\ item.Premine = Percent(Float(840000), mined)
        /\ item.PoS = Percent(Share(mined, 3), mined)
        /\ item.PoW = Percent(Share(mined, 6), mined)
        /\ item.Subsidy = Percent(Share(mined, 1), mined)
        /\ calc.arg = DocSupply =>
             /\ item.PercentMined = Literal(0, 567, 1)
             /\ item.Airdrop = Float(7)
             /\ item.Premine = Float(7)
             /\ item.PoS = Literal(0, 258, 1)
             /\ item.PoW = Literal(0, 515, 1)
             /\ item.Subsidy = Literal(0, 86, 1)

\* the item of the input of the example, with the PoS share that only
\* rounding half up gives
PercentagesFromOwnTotalWitness ==
  /\ calc.fn = "coinSupply"
  /\ calc.arg = DocSupply
  /\ calc.out.PoS = Literal(0, 258, 1)
  /\ calc.out.PercentMined = Literal(0, 567, 1)

InAlphabet(c) == c \in semanticBuildAlphabet

\* the first n elements of a sequence, all of it when it is shorter
Prefix(seq, n) == IF Len(seq) > n THEN SubSeq(seq, 1, n) ELSE seq

\* C28: the Version that is stored for any Version string received is made
\* of the characters of the alphabet only, is the first 13 at most of those
\* the string has, in their order, and sanitizing it again gives it back.
SanitizeIdempotent ==
  calc.fn = "PoolVersion" =>
    /\ Len(calc.out) <= VersionMaxLen
    /\ \A i \in 1..Len(calc.out) : InAlphabet(calc.out[i])
    /\ calc.out = Prefix(SelectSeq(calc.arg, InAlphabet), VersionMaxLen)
    /\ PoolVersion(calc.out) = calc.out
    /\ PoolVersion(PoolVersion(calc.arg)) = PoolVersion(calc.arg)
    /\ calc.out = PoolVersion(calc.arg)

\* a Version with characters outside the alphabet and more than 13 inside
SanitizeIdempotentWitness ==
  /\ calc.fn = "PoolVersion"
  /\ Len(calc.arg) > Len(SelectSeq(calc.arg, InAlphabet))
  /\ Len(SelectSeq(calc.arg, InAlphabet)) > VersionMaxLen
  /\ Len(calc.out) = VersionMaxLen

\* the number a decimal digit stands for
DigitValue(c) == CHOOSE d \in 0..9 : DecimalDigits[d + 1] = c

\* the number a decimal numeral stands for
RECURSIVE NumeralValue(_)
NumeralValue(str) ==
  IF str = <<>> THEN 0
  ELSE 10 * NumeralValue(Front(str)) + DigitValue(Last(str))

\* str is the decimal numeral of a natural number, followed by "k"
ThousandsText(str) ==
  /\ Len(str) >= 2
  /\ Last(str) = "k"
  /\ \A i \in 1..(Len(str) - 1) : \E d \in 0..9 : DecimalDigits[d + 1] = str[i]
  /\ Len(str) > 2 => str[1] # "0"

\* sums of download counts around the thousands and of every length
DownloadSums ==
  { 0, 1, 999, 1000, 1001, 1499, 1500, 1999, 2000, 9999, 10000, 10999, 23800,
    99999, 100000, 100500, 999999, 1000000, 1234567, 20999999, 2147483647 }

\* str is count in thousands, rounded down, followed by "k"
ThousandsOf(str, count) ==
  /\ ThousandsText(str)
  /\ 1000 * NumeralValue(Front(str)) <= count
  /\ count - 1000 * NumeralValue(Front(str)) < 1000

\* C31: the result of a dc request that fetched is the pair
\* ["DownloadsCount", "<n>k"] where n is the sum of the download counts of
\* the two repositories in thousands, rounded down (and so is the text made
\* for any other sum); the request answers 200 with this pair and stores it
\* in the cache with an expiry four hours after the time at which the
\* request began.
DownloadsRoundedDown ==
  /\ [](\A h \in AggHandlers :
          agg[h].pc = "store" /\ agg[h].route = "dc" =>
            LET strs == agg[h].got.strs
            IN  /\ Len(strs) = 2
                /\ strs[1] = "DownloadsCount"
                /\ ThousandsOf(strs[2], agg[h].countB + agg[h].countR)
                /\ \A count \in DownloadSums : ThousandsOf(countStr(count), count))
  /\ [][ \A h \in AggHandlers :
           agg[h].pc = "store" /\ agg[h].route = "dc" /\ agg'[h].pc = "done" =>
             /\ Has(Cache', "dc")
             /\ Cache'["dc"].item = agg[h].got
             /\ Cache'["dc"].expiry = agg[h].now + 4 * 3600
             /\ agg'[h].status = StatusOK
             /\ agg'[h].body = << ItemChunk(agg[h].got) >> ]_vars

\* a dc request that began at 5 s has counted 11900 + 11900 downloads: it
\* has answered "23k" and the entry expires at 5 s + 4 h
DownloadsRoundedDownWitness ==
  \E h \in AggHandlers :
    /\ agg[h].pc = "done"
    /\ agg[h].route = "dc"
    /\ agg[h].status = StatusOK
    /\ agg[h].body = << ItemChunk(DownloadsItem(<< "2", "3", "k" >>)) >>
    /\ Has(Cache, "dc")
    /\ Cache["dc"].item = DownloadsItem(<< "2", "3", "k" >>)
    /\ Cache["dc"].expiry = 14405

\* the step of request h is one of its remote fetches
Fetches(h) == agg'[h].fetches = agg[h].fetches + 1

\* C32: a remote fetch of a dc or gcs request never changes the cache; when
\* it fails (the request ends there, having written a response) the answer
\* is status 500 with the error and nothing else, so no entry of the cache,
\* expired or not, is given in its place; and a request that ended with an
\* error has stored nothing.
FetchFailureLeavesCache ==
  [][ \A h \in AggHandlers :
        Fetches(h) =>
          /\ Cache' = Cache
          /\ agg'[h].pc = "done" /\ agg'[h].status # 0 =>
               /\ agg'[h].status = StatusInternalServerError
               /\ agg'[h].body = << ErrorChunk >>
               /\ \A i \in 1..Len(agg'[h].body) : agg'[h].body[i].kind # "item"
          /\ agg'[h].pc # "done" =>
               /\ agg'[h].status = 0
               /\ agg'[h].body = <<>> ]_vars

\* a gcs request found the entry of the cache expired, its fetch failed,
\* it answered with the error, and the expired entry is still in the cache
FetchFailureLeavesCacheWitness ==
  \E h \in AggHandlers :
    /\ agg[h].pc = "done"
    /\ agg[h].route = "gcs"
    /\ agg[h].fetches = 1
    /\ agg[h].status = StatusInternalServerError
    /\ agg[h].body = << ErrorChunk >>
    /\ Has(Cache, "gsc")
    /\ Cache["gsc"].expiry <= clock
    /\ \A g \in AggHandlers \ {h} : agg[g].pc = "idle"

\* the unit is between its launch and the end of its store write
Refreshing(u) == u.pc \in {"add", "rlock", "read", "fetch", "lock", "write", "writing"}

\* the unit is at the first statement of its goroutine
SpLaunched(u) == u.pc = "rlock" /\ u.attempts = <<>>
VspLaunched(u) == u.pc = "add"

ClearAtomic ==
  /\ [](\A k \in DOMAIN Cache : ~Cache[k].old)
  /\ [](crashed.why # "sync: unlock of unlocked mutex")
  /\ [](\A h \in AggHandlers :
          agg[h].pc = "done" /\ agg[h].route \in AggRoutes => agg[h].status # 0)
  /\ [][ \A h \in AggHandlers :
           agg'[h] # agg[h] /\ agg'[h].route = "cc" /\ agg'[h].status = StatusOK =>
             Cache' = EmptyObj ]_vars

\* C35: as long as the cache is not cleared the expiry of an entry never
\* decreases, and the entry in the cache is the one with the latest expiry
\* stored since the last clear, that of the request that began last.
ExpiryNeverDecreases ==
  /\ [][ \A k \in CacheKeys :
           Has(Cache, k) /\ Has(Cache', k) => Cache'[k].expiry >= Cache[k].expiry ]_vars
  /\ [](\A k \in CacheKeys : Has(Cache, k) => Cache[k].expiry = promised[k])

\* C36: for every stakepool whose record is not in the middle of its write,
\* APIEnabled is true exactly when LastUpdated is not zero; both are as
\* NewService left them until a call of stakepoolStats for that stakepool
\* has succeeded, the record changes only in the write of a successful
\* call, which leaves APIEnabled true and LastUpdated at the time of the
\* cycle, and APIEnabled once true stays true, through failed cycles too.
APIEnabledIffUpdated ==
  /\ [](\A k \in DOMAIN Stakepools :
          /\ spUnit[k].pc # "writing" =>
                (Stakepools[k].APIEnabled <=> Stakepools[k].LastUpdated # 0)
          /\ cycle = 1 /\ BeforeWrite(spUnit[k]) =>
                ~Stakepools[k].APIEnabled /\ Stakepools[k].LastUpdated = 0
          /\ SpFinished(k) /\ Succeeded(spUnit[k]) =>
                Stakepools[k].APIEnabled /\ Stakepools[k].LastUpdated = now
          /\ SpFinished(k) /\ AllFailed(spUnit[k]) =>
                Stakepools[k].APIEnabled = cycleStakepools[k].APIEnabled)
  /\ [][ \A k \in DOMAIN Stakepools :
           /\ Stakepools'[k] # Stakepools[k] =>
                /\ spUnit[k].pc \in {"write", "writing"}
                /\ Stakepools'[k].APIEnabled
                /\ Stakepools'[k].LastUpdated = now
           /\ Stakepools[k].APIEnabled => Stakepools'[k].APIEnabled ]_vars

\* in the second cycle both calls for a stakepool refreshed in the first
\* have failed and its record is still enabled, while the other stakepool
\* has never been refreshed and is not
APIEnabledIffUpdatedWitness ==
  \E p, q \in DOMAIN Stakepools :
    /\ cycle = 2
    /\ SpFinished(p) /\ AllFailed(spUnit[p]) /\ Len(spUnit[p].attempts) = 2
    /\ Stakepools[p].APIEnabled /\ Stakepools[p].LastUpdated = StartTime
    /\ SpFinished(q) /\ AllFailed(spUnit[q])
    /\ ~Stakepools[q].APIEnabled /\ Stakepools[q].LastUpdated = 0

====
